---- MODULE Spec2Model ----
(***************************************************************************)
(* HairCollection (src/human/hair/haircards.py): strand extraction from a  *)
(* hair edge mesh and haircard generation.                                 *)
(*                                                                         *)
(* Vertex indices are 0-based as in the source; TLA+ sequences are 1-based,*)
(* so the Python index s[0] is s[1] here, s[-1] is s[Len(s)] and s[-2] is  *)
(* s[Len(s) - 1].                                                          *)
(* Coordinates are integer triples in units of 0.001 scene units.  A       *)
(* Euclidean length is kept by its square (length2), which is exact, and   *)
(* every comparison of a length with a threshold compares the squares.     *)
(***************************************************************************)
EXTENDS Integers, Sequences, FiniteSets, TLC

VARIABLES
    link_edges,     \* vert -> sequence of e.other_vert(vert), e in vert.link_edges
    hair_coords,    \* self.hair_coords: vert -> <<x, y, z>>
    tag,            \* BMVert.tag of every vertex of bm
    start_verts,    \* _get_individual_hairs: the degree-1 vertices, in bm.verts order
    cursor,         \* position of `for start_vert in start_verts`
    found_verts,    \* _get_individual_hairs: found_verts
    hairs,          \* strands yielded so far; self.hairs once the generator is exhausted
    pc,             \* position of the constructor
    gen,            \* frame of the latest create_mesh generator: its position and locals
    yielded,        \* the objects the latest create_mesh generator has yielded
    objects,        \* self.objects: hair_co_len -> object
    calls,          \* number of create_mesh calls made
    nearest_normals,\* self.nearest_normals: vert -> <<x, y, z>>
    hair_source,    \* the hair object and the temporary bmesh read by the constructor
    human,          \* the Human the collection is built for
    uv_layers,      \* object -> obj.data.uv_layers, the layers added by add_uvs
    removed_faces,  \* the objects whose polygons have been removed in the scene
    data_materials, \* bpy.data.materials: the HG_Haircards datablocks, in creation order
    material,       \* self.material as an index of data_materials, 0 while unset
    obj_materials,  \* object -> obj.data.materials
    haircap_obj,    \* self.haircap_obj, NoHaircap while unset
    cap_frame,      \* locals of an add_haircap call between painting and zeroing
    uv_todo,        \* add_uvs: the keys of self.objects its loop has yet to reach
    renaming,       \* frame of a rename_*_from_json call and the renames it has made
    status,         \* the latest operation after create_mesh and its outcome
    ops             \* number of calls made of the operations after create_mesh

extract_vars ==
    <<link_edges, hair_coords, nearest_normals, tag, start_verts, cursor, found_verts, hairs>>

mesh_vars == <<gen, yielded, objects, calls>>

post_vars ==
    <<human, uv_layers, removed_faces, data_materials, material, obj_materials,
      haircap_obj, cap_frame, uv_todo, renaming, status, ops>>

vars == <<extract_vars, pc, mesh_vars, hair_source, post_vars>>

-----------------------------------------------------------------------------
(* Bounds of the explored hair meshes *)

NumVerts == 4
MaxEdges == 4

Verts == 0 .. (NumVerts - 1)

AllEdges == {e \in SUBSET Verts : Cardinality(e) = 2}

EdgeSets == {E \in SUBSET AllEdges : Cardinality(E) <= MaxEdges}

Nbrs(E, v) == {w \in Verts : {v, w} \in E}

PermSeqs(S) ==
    {s \in [1 .. Cardinality(S) -> S] : \A i, j \in DOMAIN s : i # j => s[i] # s[j]}

(* every order in which the edges of E can be linked around the vertices *)
RECURSIVE LinkOrders(_, _)
LinkOrders(E, vs) ==
    IF vs = {} THEN {<<>>}
    ELSE LET v == CHOOSE x \in vs : \A y \in vs : x >= y
         IN  {f @@ (v :> p) : f \in LinkOrders(E, vs \ {v}), p \in PermSeqs(Nbrs(E, v))}

(* coordinate layouts of the explored meshes, units of 0.001 *)
CoordLayouts ==
    { [v \in Verts |-> <<30 * v, 0, 0>>],
      [v \in Verts |-> <<10 * v * v, 0, 0>>],
      [v \in Verts |-> <<25 * v, 30 * (v % 2), 3 * v>>] }

-----------------------------------------------------------------------------
(* Geometry *)

Sub(a, b) == <<a[1] - b[1], a[2] - b[2], a[3] - b[3]>>

Norm2(a) == a[1] * a[1] + a[2] * a[2] + a[3] * a[3]

Dist2(a, b) == Norm2(Sub(a, b))

-----------------------------------------------------------------------------
(* The human: its body mesh (evaluated world coordinates and unit normals   *)
(* of the vertices, by vertex index), its hair-density vertex groups (group *)
(* -> assigned vertex -> weight, in units of 0.00001) and the inputs of the *)
(* node group of its hair material, body_obj.data.materials[2]              *)

(* 1.0 as a weight or a colour channel *)
One == 100000

BodyCoords == (0 :> <<0, 0, -50>>) @@ (1 :> <<300, 0, 0>>) @@ (2 :> <<0, 300, -50>>)

(* the world coordinates of the body without its deformation shapekeys *)
BodyBaseCoords == (0 :> <<0, 0, -60>>) @@ (1 :> <<300, 0, 0>>) @@ (2 :> <<0, 300, -50>>)

BodyNormals == (0 :> <<0, 0, 1>>) @@ (1 :> <<1, 0, 0>>) @@ (2 :> <<0, 0, 1>>)

VertexGroups ==
    [A |-> (0 :> 30000) @@ (1 :> 100000),
     B |-> (0 :> 40000) @@ (1 :> 60000) @@ (2 :> 12346),
     C |-> (2 :> 12)]

HumanWith(lightness, redness) ==
    [body_co |-> BodyCoords, body_base_co |-> BodyBaseCoords,
     body_normals |-> BodyNormals, groups |-> VertexGroups,
     hair_node |-> [Lightness |-> lightness, Redness |-> redness]]

Humans == {HumanWith(l, r) : l \in {2, 7}, r \in {3, 9}}

(* self.kd.find(co)[1]: the index of the point nearest to co, the lowest    *)
(* index among equally near points                                          *)
KdFind(points, co) ==
    CHOOSE i \in DOMAIN points :
        \A j \in DOMAIN points :
            \/ Dist2(points[i], co) < Dist2(points[j], co)
            \/ Dist2(points[i], co) = Dist2(points[j], co) /\ i <= j

(* lines 44-48: the normal of the body vertex nearest to each hair vertex *)
NearestNormals(hum, co) ==
    [v \in DOMAIN co |-> hum.body_normals[KdFind(hum.body_co, co[v])]]

-----------------------------------------------------------------------------
(* The hair source: hair_obj and the bmesh bm made from its mesh (lines     *)
(* 50-51), each live until the constructor frees or deletes it.  stale      *)
(* collects the uses made of a freed bmesh or of a deleted object.          *)

LiveSource == [bm |-> "live", hair_obj |-> "live", deletes |-> 0, stale |-> {}]

(* what a step of the constructor or an operation dereferences of the hair  *)
(* source                                                                   *)
HairSourceUsesMatrix(op) ==
    CASE op = "extract" -> {"bm"}
      [] op = "free"    -> {"bm"}
      [] op = "delete"  -> {"hair_obj"}
      [] op = "create_mesh" -> {"hair_obj"}
      [] OTHER          -> {}

HairSourceUses(op) ==
    CASE op = "extract" -> {"bm"}
      [] op = "free"    -> {"bm"}
      [] op = "delete"  -> {"hair_obj"}
      [] OTHER          -> {}

Gone(src, r) ==
    \/ r = "bm" /\ src.bm = "freed"
    \/ r = "hair_obj" /\ src.hair_obj = "deleted"

Used(src, op) ==
    [src EXCEPT !.stale = @ \cup {<<op, r>> : r \in {x \in HairSourceUses(op) : Gone(src, x)}}]

-----------------------------------------------------------------------------
(* Strand extraction *)

Degree(le, v) == Len(le[v])

(* lines 75-78: the vertices with exactly one link edge, in vertex order *)
StartVerts(le) ==
    SelectSeq([i \in 1 .. Cardinality(DOMAIN le) |-> i - 1], LAMBDA v : Degree(le, v) = 1)

(* line 67: `if v.tag: continue`, the re-check made when the loop reaches v *)
SkipLinkedNoRecheck(tg, v) == FALSE

SkipLinked(tg, v) == tg[v]

(* the tags a walk starts from: BMVert.tag lives in bm and outlasts a walk *)
EntryTagsFresh(tg) == [v \in DOMAIN tg |-> FALSE]

EntryTags(tg) == tg

RECURSIVE WalkIsland(_, _, _), WalkLinked(_, _, _, _)
WalkLinked(linked_verts, i, acc, le) ==
    IF i > Len(linked_verts) THEN acc
    ELSE LET v == linked_verts[i]
         IN  IF SkipLinked(acc.tag, v)
             THEN WalkLinked(linked_verts, i + 1, acc, le)
             ELSE LET sub == WalkIsland(v, acc.tag, le)
                  IN  WalkLinked(linked_verts, i + 1,
                                 [idxs |-> acc.idxs \o sub.idxs, tag |-> sub.tag], le)

(* _walk_island: the indices yielded, in order, and the tags left behind *)
WalkIsland(vert, tg, le) ==
    LET tagged == [tg EXCEPT ![vert] = TRUE]
        linked_verts == SelectSeq(le[vert], LAMBDA w : ~tagged[w])
    IN  WalkLinked(linked_verts, 1, [idxs |-> <<vert>>, tag |-> tagged], le)

(* lines 87-89: norm(hair_coords[island_idxs[0]] - hair_coords[island_idxs[-2]]) *)
StrandLength2ToLast(co, island_idxs) ==
    Dist2(co[island_idxs[1]], co[island_idxs[Len(island_idxs)]])

StrandLength2ToSecond(co, island_idxs) ==
    Dist2(co[island_idxs[1]], co[island_idxs[2]])

StrandLength2(co, island_idxs) ==
    Dist2(co[island_idxs[1]], co[island_idxs[Len(island_idxs) - 1]])

(* line 91: found_verts.add(island_idxs[-1]) *)
FoundVertFirst(island_idxs) == island_idxs[1]

FoundVert(island_idxs) == island_idxs[Len(island_idxs)]

(* One iteration of `for start_vert in start_verts` (lines 82-91) on the     *)
(* extraction state st.  island_idxs[-2] raises IndexError when the island  *)
(* has a single index.                                                      *)
LoopBody(st, sv, le, co) ==
    IF sv \in st.found_verts
    THEN [st EXCEPT !.cursor = @ + 1]
    ELSE LET w == WalkIsland(sv, EntryTags(st.tag), le)
         IN  IF Len(w.idxs) < 2
             THEN [st EXCEPT !.tag = w.tag, !.raised = TRUE]
             ELSE [st EXCEPT !.tag = w.tag,
                             !.cursor = @ + 1,
                             !.hairs = Append(@, [idxs |-> w.idxs,
                                                  length2 |-> StrandLength2(co, w.idxs)]),
                             !.found_verts = @ \cup {FoundVert(w.idxs)}]

ExtractState ==
    [cursor |-> cursor, found_verts |-> found_verts, tag |-> tag, hairs |-> hairs,
     raised |-> FALSE]

AfterBody == LoopBody(ExtractState, start_verts[cursor], link_edges, hair_coords)

InLoop == pc = "extract" /\ cursor <= Len(start_verts)

SetExtractState(st) ==
    /\ cursor' = st.cursor
    /\ found_verts' = st.found_verts
    /\ tag' = st.tag
    /\ hairs' = st.hairs
    /\ pc' = IF st.raised THEN "raised" ELSE pc
    /\ hair_source' = Used(hair_source, "extract")
    /\ UNCHANGED <<link_edges, hair_coords, nearest_normals, start_verts, mesh_vars, post_vars>>

(* lines 83-84: the start vertex closed an earlier strand *)
SkipFound ==
    /\ InLoop
    /\ start_verts[cursor] \in found_verts
    /\ SetExtractState(AfterBody)

(* lines 85-91: an island is walked and yielded *)
WalkYield ==
    /\ InLoop
    /\ start_verts[cursor] \notin found_verts
    /\ ~AfterBody.raised
    /\ SetExtractState(AfterBody)

(* lines 85-88: the island has one index and island_idxs[-2] raises *)
WalkRaise ==
    /\ InLoop
    /\ start_verts[cursor] \notin found_verts
    /\ AfterBody.raised
    /\ SetExtractState(AfterBody)

(* line 52: the generator is exhausted, list(...) is bound to self.hairs *)
ExtractDone ==
    /\ pc = "extract"
    /\ cursor > Len(start_verts)
    /\ pc' = "free"
    /\ hair_source' = Used(hair_source, "extract")
    /\ UNCHANGED <<extract_vars, mesh_vars, post_vars>>

(* line 53: bm.free() *)
FreeBMesh ==
    /\ pc = "free"
    /\ pc' = "delete"
    /\ hair_source' = [Used(hair_source, "free") EXCEPT !.bm = "freed"]
    /\ UNCHANGED <<extract_vars, mesh_vars, post_vars>>

(* lines 54-55: hg_delete(hair_obj); self.objects = {} *)
DeleteHairObj ==
    /\ pc = "delete"
    /\ pc' = "ready"
    /\ hair_source' = [Used(hair_source, "delete") EXCEPT !.hair_obj = "deleted",
                                                          !.deletes = @ + 1]
    /\ UNCHANGED <<extract_vars, mesh_vars, post_vars>>

(* no create_mesh generator exists *)
NoGen ==
    [state |-> "none", quality |-> "none", chosen_quality |-> <<>>,
     short_hairs |-> <<>>, medium_hairs |-> <<>>, long_hairs |-> <<>>,
     all_hairs |-> <<>>, rdp_downsized_hair_co_idxs |-> <<>>,
     hair_len_dict |-> <<>>, pos |-> 1]

(* self.haircap_obj is not set *)
NoHaircap ==
    [exists |-> FALSE, co |-> <<>>, faces |-> <<>>, edges |-> {}, color |-> <<>>,
     node |-> [Lightness |-> 0, Redness |-> 0]]

(* no add_haircap call is between its painting and its zeroing *)
NoCapFrame == [active |-> FALSE, haircap_world_coords |-> <<>>, haircap_obj |-> NoHaircap]

(* what the operations that follow create_mesh start from: nothing added    *)
(* yet, bpy.data.materials as mats                                          *)
(* no rename_*_from_json call has been made *)
NoRenaming ==
    [call |-> "none", args |-> <<>>, data |-> <<>>, type |-> "none", new_name |-> <<>>,
     items |-> <<>>, custom_token |-> <<>>, suffix |-> <<>>, log |-> <<>>]

PostInit(hum, mats) ==
    /\ human = hum
    /\ uv_layers = <<>>
    /\ removed_faces = {}
    /\ data_materials = mats
    /\ material = 0
    /\ obj_materials = <<>>
    /\ haircap_obj = NoHaircap
    /\ cap_frame = NoCapFrame
    /\ uv_todo = {}
    /\ renaming = NoRenaming
    /\ status = [op |-> "none", args |-> <<>>, result |-> "ok"]
    /\ ops = 0

(* __init__ entered with any hair mesh within the bounds *)
Init ==
    /\ \E E \in EdgeSets : link_edges \in LinkOrders(E, Verts)
    /\ hair_coords \in CoordLayouts
    /\ PostInit(HumanWith(2, 3), <<>>)
    /\ nearest_normals = NearestNormals(human, hair_coords)
    /\ hair_source = LiveSource
    /\ tag = [v \in Verts |-> FALSE]
    /\ start_verts = StartVerts(link_edges)
    /\ cursor = 1
    /\ found_verts = {}
    /\ hairs = <<>>
    /\ pc = "extract"
    /\ gen = NoGen
    /\ yielded = <<>>
    /\ objects = <<>>
    /\ calls = 0

Next ==
    \/ SkipFound
    \/ WalkYield
    \/ WalkRaise
    \/ ExtractDone
    \/ FreeBMesh
    \/ DeleteHairObj

Spec == Init /\ [][Next]_vars

-----------------------------------------------------------------------------
(* create_mesh: classification, downsampling, simplification, grouping *)

Qualities == {"ultra", "high", "medium", "low"}

(* lines 101-106: quality_dict.  epsilon (4th) is in units of 0.001 and the *)
(* 5th element is twice the source's value (0.5, 1, 1, 2).                  *)
QualityDictHighReordered(quality) ==
    CASE quality = "ultra"  -> <<1, 5, 6, 2, 1>>
      [] quality = "high"   -> <<6, 6, 3, 3, 2>>
      [] quality = "medium" -> <<6, 12, 14, 5, 2>>
      [] quality = "low"    -> <<15, 20, 20, 5, 4>>

QualityDict(quality) ==
    CASE quality = "ultra"  -> <<1, 5, 6, 2, 1>>
      [] quality = "high"   -> <<3, 6, 6, 3, 2>>
      [] quality = "medium" -> <<6, 12, 14, 5, 2>>
      [] quality = "low"    -> <<15, 20, 20, 5, 4>>

(* thresholds of lines 97-99 (0.05 and 0.1) in units of 0.001, and of line 111 *)
ShortMax == 50
MediumMax == 100
BucketLimit == 30

(* line 97: length > 0.1 *)
IsLong(length2) == length2 > MediumMax * MediumMax

(* line 98: 0.1 >= length > 0.05 *)
IsMedium(length2) == MediumMax * MediumMax >= length2 /\ length2 > ShortMax * ShortMax

(* line 99: 0.05 >= length *)
IsShortStrict(length2) == ShortMax * ShortMax > length2

IsShort(length2) == ShortMax * ShortMax >= length2

(* `hair for hair, length in ...`: the index arrays of the chosen strands *)
HairsOf(chosen) == [i \in 1 .. Len(chosen) |-> chosen[i].idxs]

(* line 97 *)
LongHairs(hs) == HairsOf(SelectSeq(hs, LAMBDA h : IsLong(h.length2)))

(* line 98 *)
MediumHairs(hs) == HairsOf(SelectSeq(hs, LAMBDA h : IsMedium(h.length2)))

(* line 99 *)
ShortHairs(hs) == HairsOf(SelectSeq(hs, LAMBDA h : IsShort(h.length2)))

(* line 112: hair_list[::step] *)
SliceStep(hair_list, step) ==
    [j \in 1 .. ((Len(hair_list) + step - 1) \div step) |-> hair_list[(j - 1) * step + 1]]

(* lines 111-114, for bucket i of (short, medium, long), i from 1 *)
RetainedAtLimit(hair_list, i, chosen_quality) ==
    IF Len(hair_list) >= BucketLimit
    THEN SliceStep(hair_list, chosen_quality[i])
    ELSE hair_list

Retained(hair_list, i, chosen_quality) ==
    IF Len(hair_list) > BucketLimit
    THEN SliceStep(hair_list, chosen_quality[i])
    ELSE hair_list

(* HumGen3D.extern.rdp: Ramer-Douglas-Peucker on the points P[lo .. hi].    *)
Cross(a, b) ==
    <<a[2] * b[3] - a[3] * b[2], a[3] * b[1] - a[1] * b[3], a[1] * b[2] - a[2] * b[1]>>

(* squared distance of point from the line start-end, times |end - start|^2;*)
(* from the point start when start = end                                    *)
PlDist2Scaled(point, start, end) ==
    IF start = end THEN Dist2(point, start)
    ELSE Norm2(Cross(Sub(end, start), Sub(start, point)))

RECURSIVE FarthestFrom(_, _, _, _, _)
(* the first index of lo+1 .. hi-1 at the largest distance above 0, else best *)
FarthestFrom(P, lo, hi, i, best) ==
    IF i >= hi THEN best
    ELSE LET d == PlDist2Scaled(P[i], P[lo], P[hi])
         IN  IF d > best.dmax
             THEN FarthestFrom(P, lo, hi, i + 1, [index |-> i, dmax |-> d])
             ELSE FarthestFrom(P, lo, hi, i + 1, best)

RECURSIVE RdpKept(_, _, _, _)
RdpKept(P, lo, hi, epsilon) ==
    LET far == FarthestFrom(P, lo, hi, lo + 1, [index |-> lo, dmax |-> 0])
        scale == IF P[lo] = P[hi] THEN 1 ELSE Dist2(P[lo], P[hi])
    IN  IF far.dmax > epsilon * epsilon * scale
        THEN RdpKept(P, lo, far.index, epsilon) \cup RdpKept(P, far.index, hi, epsilon)
        ELSE {lo, hi}

(* rdp(M, epsilon=..., return_mask=True) *)
Rdp(M, epsilon) ==
    LET kept == RdpKept(M, 1, Len(M), epsilon)
    IN  [i \in 1 .. Len(M) |-> i \in kept]

(* lines 117-123: hair_vert_idxs[mask], boolean-mask indexing *)
ApplyMaskAsIndices(hair_vert_idxs, mask) ==
    [i \in 1 .. Len(mask) |-> hair_vert_idxs[IF mask[i] THEN 2 ELSE 1]]

ApplyMask(hair_vert_idxs, mask) ==
    LET keep == SelectSeq([i \in 1 .. Len(mask) |-> i], LAMBDA i : mask[i])
    IN  [j \in 1 .. Len(keep) |-> hair_vert_idxs[keep[j]]]

(* line 119: self.hair_coords[hair_vert_idxs] *)
CoordsOf(co, hair_vert_idxs) == [i \in 1 .. Len(hair_vert_idxs) |-> co[hair_vert_idxs[i]]]

(* lines 116-125 *)
RdpDownsized(co, all_hairs, chosen_quality) ==
    [i \in 1 .. Len(all_hairs) |->
        ApplyMask(all_hairs[i], Rdp(CoordsOf(co, all_hairs[i]), chosen_quality[4]))]

(* line 128: hair_len_dict.setdefault(len(hair_vert_idxs), []).append(...):  *)
(* the value the dict ends with for the key hair_co_len                      *)
DictValueLastOnly(downsized, hair_co_len) ==
    LET same == SelectSeq(downsized, LAMBDA h : Len(h) = hair_co_len)
    IN  <<same[Len(same)]>>

DictValue(downsized, hair_co_len) ==
    SelectSeq(downsized, LAMBDA h : Len(h) = hair_co_len)

(* lines 126-132: hair_len_dict_np as the sequence of its items in insertion *)
(* order; a key is inserted by the first strand that has its length          *)
HairLenDict(downsized) ==
    LET inserts == SelectSeq([i \in 1 .. Len(downsized) |-> i],
                             LAMBDA i : \A j \in 1 .. (i - 1) :
                                           Len(downsized[j]) # Len(downsized[i]))
    IN  [x \in 1 .. Len(inserts) |->
            [hair_co_len |-> Len(downsized[inserts[x]]),
             hair_vert_idxs |-> DictValue(downsized, Len(downsized[inserts[x]]))]]

(* lines 97-132: the generator's code before its loop, run by the first next() *)
Prepare(g, hs, co) ==
    LET short_hairs == ShortHairs(hs)
        medium_hairs == MediumHairs(hs)
        long_hairs == LongHairs(hs)
        chosen_quality == QualityDict(g.quality)
        all_hairs == Retained(short_hairs, 1, chosen_quality)
                     \o Retained(medium_hairs, 2, chosen_quality)
                     \o Retained(long_hairs, 3, chosen_quality)
        downsized == RdpDownsized(co, all_hairs, chosen_quality)
    IN  [state |-> "loop", quality |-> g.quality, chosen_quality |-> chosen_quality,
         short_hairs |-> short_hairs, medium_hairs |-> medium_hairs,
         long_hairs |-> long_hairs, all_hairs |-> all_hairs,
         rdp_downsized_hair_co_idxs |-> downsized,
         hair_len_dict |-> HairLenDict(downsized), pos |-> 1]

(* the frame at the head of `for hair_co_len, hair_vert_idxs in ...` (line 134) *)
Frame == IF gen.state = "start" THEN Prepare(gen, hairs, hair_coords) ELSE gen

(* lines 154-160: the object built from one item of hair_len_dict_np; `call` *)
(* tells the objects of different create_mesh calls apart                    *)
NewObject(item, call) ==
    [name |-> item.hair_co_len, hair_vert_idxs |-> item.hair_vert_idxs, call |-> call]

(* self.objects[hair_co_len] = obj *)
SetItem(d, k, obj) == [x \in (DOMAIN d) \cup {k} |-> IF x = k THEN obj ELSE d[x]]

(* The loop body writes in place into three of its arrays only: faces (line *)
(* 191, from np.empty), length_correction (lines 210-211, from np.ones) and *)
(* hair_key_vectors (line 242), the result of normalize(a - b) at line 240. *)
(* The first two cannot share memory with an array of self.  This is the    *)
(* array of self whose memory hair_key_vectors shares: none, the            *)
(* subtraction allocates its result, and the arrays it reads were copied    *)
(* out of self.hair_coords by the integer-array indexing of line 135.       *)
HairKeyVectorsMemoryShared == "hair_coords"

HairKeyVectorsMemory == "none"

(* line 242, hair_key_vectors[:, -1] = hair_key_vectors[:, -2], as it lands *)
(* in the array `name` of self for the strands of hair_vert_idxs            *)
AfterLoopBody(name, array, hair_co_len, hair_vert_idxs) ==
    IF HairKeyVectorsMemory = name /\ hair_co_len > 1
    THEN [v \in DOMAIN array |->
            IF \E i \in DOMAIN hair_vert_idxs : hair_vert_idxs[i][hair_co_len] = v
            THEN LET i == CHOOSE x \in DOMAIN hair_vert_idxs :
                              hair_vert_idxs[x][hair_co_len] = v
                 IN  array[hair_vert_idxs[i][hair_co_len - 1]]
            ELSE array[v]]
    ELSE array

MaxCalls == 2

(* create_mesh(quality) is called: a generator is created, no code runs yet *)
CreateMesh(quality) ==
    /\ pc = "ready"
    /\ calls < MaxCalls
    /\ gen' = [NoGen EXCEPT !.state = "start", !.quality = quality]
    /\ yielded' = <<>>
    /\ calls' = calls + 1
    /\ hair_source' = Used(hair_source, "create_mesh")
    /\ UNCHANGED <<extract_vars, pc, objects, post_vars>>

(* next() on the generator runs to the next `yield obj` (lines 134-163) *)
GenNextYield ==
    /\ pc = "ready"
    /\ gen.state \in {"start", "loop"}
    /\ LET frame == Frame
       IN  /\ frame.pos <= Len(frame.hair_len_dict)
           /\ LET item == frame.hair_len_dict[frame.pos]
                  obj == NewObject(item, calls)
              IN  /\ objects' = SetItem(objects, item.hair_co_len, obj)
                  /\ yielded' = Append(yielded, obj)
                  /\ gen' = [frame EXCEPT !.pos = @ + 1]
                  /\ hair_coords' = AfterLoopBody("hair_coords", hair_coords,
                                                  item.hair_co_len, item.hair_vert_idxs)
                  /\ nearest_normals' = AfterLoopBody("nearest_normals", nearest_normals,
                                                      item.hair_co_len, item.hair_vert_idxs)
    /\ hair_source' = Used(hair_source, "create_mesh")
    /\ UNCHANGED <<link_edges, tag, start_verts, cursor, found_verts, hairs, pc, calls,
                   post_vars>>

(* next() on the generator finds the loop over and raises StopIteration *)
GenNextStop ==
    /\ pc = "ready"
    /\ gen.state \in {"start", "loop"}
    /\ LET frame == Frame
       IN  /\ frame.pos > Len(frame.hair_len_dict)
           /\ gen' = [frame EXCEPT !.state = "done"]
    /\ hair_source' = Used(hair_source, "create_mesh")
    /\ UNCHANGED <<extract_vars, pc, yielded, objects, calls, post_vars>>

-----------------------------------------------------------------------------
(* The mesh of a haircard object (lines 135-160).  Vertex coordinates are   *)
(* in fine units, Fine to one unit of hair_coords, which keeps the offsets  *)
(* of lines 207-217 exact for strands of up to 6 points.  A vertex carries, *)
(* next to its coordinate co, the strand (row of hair_vert_idxs) and the    *)
(* place on the strand of the point its coordinate was computed from, and   *)
(* the array it was made in.  Vertex indices are 0-based as in the source.  *)

Fine == 300

Add(a, b) == <<a[1] + b[1], a[2] + b[2], a[3] + b[3]>>

Abs(x) == IF x < 0 THEN -x ELSE x

UnitAxes == {<<1, 0, 0>>, <<-1, 0, 0>>, <<0, 1, 0>>, <<0, -1, 0>>, <<0, 0, 1>>, <<0, 0, -1>>}

(* HumGen3D.common.math.normalize: v / |v|, for a vector along an axis *)
Normalize(v) ==
    CHOOSE u \in UnitAxes :
        /\ Cross(u, v) = <<0, 0, 0>>
        /\ u[1] * v[1] + u[2] * v[2] + u[3] * v[3] > 0

(* lines 135-136: array[hair_vert_idxs], n rows of hair_co_len entries *)
Gather(array, hair_vert_idxs) ==
    [i \in 1 .. Len(hair_vert_idxs) |->
        [q \in 1 .. Len(hair_vert_idxs[i]) |-> array[hair_vert_idxs[i][q]]]]

(* lines 239-249 *)
CalculatePerpendicularVec(hair_co_len, hair_coords_, nearest_normals_) ==
    [i \in 1 .. Len(hair_coords_) |->
        LET row == hair_coords_[i]
            rolled == [q \in 1 .. hair_co_len |-> row[(q % hair_co_len) + 1]]
            place(q) == IF hair_co_len > 1 /\ q = hair_co_len THEN hair_co_len - 1 ELSE q
            hair_key_vectors ==
                [q \in 1 .. hair_co_len |-> Normalize(Sub(rolled[place(q)], row[place(q)]))]
        IN  [q \in 1 .. hair_co_len |-> Cross(nearest_normals_[i][q], hair_key_vectors[q])]]

(* lines 254-258: arange(0.01, 0.03, 0.02 / hair_co_len), reversed, in fine *)
(* units                                                                    *)
CalculateSegmentCorrection(hair_co_len) ==
    [q \in 1 .. hair_co_len |->
        10 * Fine + (hair_co_len - q) * ((20 * Fine) \div hair_co_len)]

LengthCorrectionInclusive(row) ==
    LET hair_length2 == Dist2(row[1], row[Len(row)])
    IN  IF hair_length2 <= 5 * 5 THEN 3
        ELSE IF hair_length2 <= 10 * 10 THEN 4
        ELSE 5

(* lines 208-211: five times the length correction 1, 0.8 or 0.6 of a row *)
LengthCorrection(row) ==
    LET hair_length2 == Dist2(row[1], row[Len(row)])
    IN  IF hair_length2 < 5 * 5 THEN 3
        ELSE IF hair_length2 < 10 * 10 THEN 4
        ELSE 5

(* line 213 *)
PerpendicularOffset(hair_co_len, hair_coords_, perpendicular) ==
    LET segment_correction == CalculateSegmentCorrection(hair_co_len)
    IN  [i \in 1 .. Len(hair_coords_) |->
            [q \in 1 .. hair_co_len |->
                LET f == (segment_correction[q] * LengthCorrection(hair_coords_[i])) \div 5
                IN  <<f * perpendicular[i][q][1], f * perpendicular[i][q][2],
                      f * perpendicular[i][q][3]>>]]

(* lines 215-217 *)
HeadNormalOffset(hair_co_len, hair_coords_, nearest_normals_) ==
    LET segment_correction == CalculateSegmentCorrection(hair_co_len)
    IN  [i \in 1 .. Len(hair_coords_) |->
            [q \in 1 .. hair_co_len |->
                LET f == (segment_correction[q] * LengthCorrection(hair_coords_[i]) * 3) \div 50
                IN  <<f * Abs(nearest_normals_[i][q][1]), f * Abs(nearest_normals_[i][q][2]),
                      f * Abs(nearest_normals_[i][q][3])>>]]

FineCo(c) == <<Fine * c[1], Fine * c[2], Fine * c[3]>>

Vertex(co, strand, point, made_in) ==
    [co |-> co, strand |-> strand, point |-> point, made_in |-> made_in]

(* line 220: np.flip(hair_coords, axis=1) - perpendicular_offset *)
HairCoordsLeft(hair_co_len, hair_coords_, offset, i, q) ==
    Vertex(Sub(FineCo(hair_coords_[i][hair_co_len + 1 - q]), offset[i][q]),
           i, hair_co_len + 1 - q, "left")

(* line 219 *)
HairCoordsRight(hair_co_len, hair_coords_, offset, i, q) ==
    Vertex(Add(FineCo(hair_coords_[i][q]), offset[i][q]), i, q, "right")

(* line 221 *)
HairCoordsTop(hair_co_len, hair_coords_, offset, i, q) ==
    Vertex(Add(FineCo(hair_coords_[i][q]), offset[i][q]), i, q, "top")

(* line 222 *)
HairCoordsBottom(hair_co_len, hair_coords_, offset, i, q) ==
    Vertex(Sub(FineCo(hair_coords_[i][q]), offset[i][q]), i, q, "bottom")

(* lines 224 and 229: concatenate((left, right), axis=1).reshape((-1, 3)) *)
NewVerts(hair_co_len, hair_coords_, offset) ==
    [x \in 1 .. (2 * hair_co_len * Len(hair_coords_)) |->
        LET i == ((x - 1) \div (2 * hair_co_len)) + 1
            r == ((x - 1) % (2 * hair_co_len)) + 1
        IN  IF r <= hair_co_len
            THEN HairCoordsLeft(hair_co_len, hair_coords_, offset, i, r)
            ELSE HairCoordsRight(hair_co_len, hair_coords_, offset, i, r - hair_co_len)]

(* lines 225-227 and 230: concatenate((top, bottom), axis=1).reshape((-1, 3)) *)
NewVertsParallel(hair_co_len, hair_coords_, offset) ==
    [x \in 1 .. (2 * hair_co_len * Len(hair_coords_)) |->
        LET i == ((x - 1) \div (2 * hair_co_len)) + 1
            r == ((x - 1) % (2 * hair_co_len)) + 1
        IN  IF r <= hair_co_len
            THEN HairCoordsTop(hair_co_len, hair_coords_, offset, i, r)
            ELSE HairCoordsBottom(hair_co_len, hair_coords_, offset, i, r - hair_co_len)]

(* lines 186-197: faces[i, j, :], i and j from 0, reshaped to rows of 4 *)
ComputeNewFaceVertIdxs(hair_co_len, n) ==
    [x \in 1 .. (n * (hair_co_len - 1)) |->
        LET i == (x - 1) \div (hair_co_len - 1)
            j == (x - 1) % (hair_co_len - 1)
            corr == i * hair_co_len * 2
        IN  <<corr + j,
              corr + j + 1,
              corr + hair_co_len * 2 - j - 2,
              corr + hair_co_len * 2 - j - 1>>]

ShiftedByNothing(faces, by) == faces

(* line 151: faces_parallel + len(new_verts) *)
Shifted(faces, by) ==
    [x \in 1 .. Len(faces) |-> [c \in 1 .. 4 |-> faces[x][c] + by]]

(* line 151, a mesh of the flat ribbons alone *)
AllFacesFlatOnly(faces, faces_parallel, len_new_verts) == faces

(* lines 151-152 *)
AllFaces(faces, faces_parallel, len_new_verts) ==
    faces \o Shifted(faces_parallel, len_new_verts)

(* lines 135-160: the mesh obj_from_pydata is given for one item of         *)
(* hair_len_dict_np                                                         *)
BuildMesh(hair_co_len, hair_vert_idxs, co, normals) ==
    LET hair_coords_ == Gather(co, hair_vert_idxs)
        nearest_normals_ == Gather(normals, hair_vert_idxs)
        perpendicular ==
            CalculatePerpendicularVec(hair_co_len, hair_coords_, nearest_normals_)
        new_verts ==
            NewVerts(hair_co_len, hair_coords_,
                     PerpendicularOffset(hair_co_len, hair_coords_, perpendicular))
        new_verts_parallel ==
            NewVertsParallel(hair_co_len, hair_coords_,
                             HeadNormalOffset(hair_co_len, hair_coords_, nearest_normals_))
        faces == ComputeNewFaceVertIdxs(hair_co_len, Len(hair_coords_))
    IN  [vertices |-> new_verts \o new_verts_parallel,
         polygons |-> AllFaces(faces, faces, Len(new_verts))]

(* the mesh of the object obj of a collection with coordinates co and       *)
(* normals: as create_mesh built it, without its polygons when removed      *)
MeshOf(obj, co, normals, removed) ==
    LET built == BuildMesh(obj.name, obj.hair_vert_idxs, co, normals)
    IN  IF <<obj.name, obj.call>> \in removed
        THEN [built EXCEPT !.polygons = <<>>]
        ELSE built

-----------------------------------------------------------------------------
(* add_uvs (lines 260-351) *)

(* hairzone_uv_dict, the content of HairMediumLength_zones.json:            *)
(* {"long" | "short"} -> zone groups (list(....values())) -> {"wide" |      *)
(* "narrow"} -> zones, a zone being <<bottom_left, top_right>>.  UV         *)
(* coordinates are in units that keep line 348 exact for up to 5 points.    *)
HairzoneUvDict ==
    [long  |-> << [wide   |-> << << <<0, 0>>, <<120, 600>> >> >>,
                   narrow |-> << << <<120, 0>>, <<180, 600>> >>,
                                 << <<180, 0>>, <<240, 600>> >> >>] >>,
     short |-> << [wide   |-> << << <<0, 600>>, <<120, 840>> >> >>,
                   narrow |-> << << <<120, 600>>, <<180, 840>> >> >>],
                  [wide   |-> << << <<240, 600>>, <<360, 840>> >> >>,
                   narrow |-> << << <<360, 600>>, <<420, 840>> >> >>] >>]

(* the outcomes of the two random.choice calls made for one card *)
Picks == {<<a, b>> : a \in 1 .. 2, b \in 1 .. 2}

(* random.choice(list) with the random draw r *)
RandomChoice(list, r) == list[((r - 1) % Len(list)) + 1]

(* the identity of an object: its name and the create_mesh call it is from *)
ObjId(obj) == <<obj.name, obj.call>>

(* line 273: `if not obj.data.polygons: continue` *)
SkipObjectNever(mesh) == FALSE

SkipObject(mesh) == mesh.polygons = <<>>

(* line 305: range(0, len(verts), vert_len * 2), the cards numbered from 1 *)
Cards(mesh, vert_len) ==
    1 .. ((Len(mesh.vertices) + 2 * vert_len - 1) \div (2 * vert_len))

(* verts[i] of the card g, i from 0 within the card *)
CardVert(mesh, vert_len, g, i) == mesh.vertices[(g - 1) * 2 * vert_len + i + 1]

(* line 318: the square of (hair_verts[0].co - hair_verts[vert_len].co).length *)
MeasuredLength2(mesh, vert_len, g) ==
    Dist2(CardVert(mesh, vert_len, g, 0).co, CardVert(mesh, vert_len, g, vert_len).co)

(* line 319: the square of (hair_verts[0].co - hair_verts[-1].co).length *)
MeasuredWidth2(mesh, vert_len, g) ==
    Dist2(CardVert(mesh, vert_len, g, 0).co, CardVert(mesh, vert_len, g, 2 * vert_len - 1).co)

(* the thresholds of lines 320, 322 and 328 (0.05, 0.02, 0.01), units of 0.001 *)
LongCardMin == 50
WideLongMin == 20
WideShortMin == 10

(* lines 320, 321 and 327: list(hairzone_uv_dict["long" | "short"].values()) *)
ZoneGroups(hairzone_uv_dict, length2) ==
    IF length2 > (LongCardMin * Fine) * (LongCardMin * Fine)
    THEN hairzone_uv_dict.long
    ELSE hairzone_uv_dict.short

(* lines 322-325 and 328-331: subdict["wide" | "narrow"] *)
ZonesOtherWidth(subdict, length2, width2) ==
    IF length2 > (LongCardMin * Fine) * (LongCardMin * Fine)
    THEN IF width2 > (WideLongMin * Fine) * (WideLongMin * Fine)
         THEN subdict.narrow ELSE subdict.wide
    ELSE IF width2 > (WideShortMin * Fine) * (WideShortMin * Fine)
         THEN subdict.narrow ELSE subdict.wide

Zones(subdict, length2, width2) ==
    IF length2 > (LongCardMin * Fine) * (LongCardMin * Fine)
    THEN IF width2 > (WideLongMin * Fine) * (WideLongMin * Fine)
         THEN subdict.wide ELSE subdict.narrow
    ELSE IF width2 > (WideShortMin * Fine) * (WideShortMin * Fine)
         THEN subdict.wide ELSE subdict.narrow

(* lines 320-331: chosen_zone, pick being the draws of the two choices *)
ChosenZone(hairzone_uv_dict, length2, width2, pick) ==
    LET subdict == RandomChoice(ZoneGroups(hairzone_uv_dict, length2), pick[1])
    IN  RandomChoice(Zones(subdict, length2, width2), pick[2])

(* each draw of pick is a place of the list it is drawn from *)
DrawsInRange(hairzone_uv_dict, length2, width2, pick) ==
    LET groups == ZoneGroups(hairzone_uv_dict, length2)
    IN  /\ pick[1] <= Len(groups)
        /\ pick[2] <= Len(Zones(groups[pick[1]], length2, width2))

(* the loops of a mesh built by from_pydata: 4 per polygon, loop 4 f + c    *)
(* (f and c from 0) at the corner c of the polygon f                        *)
LoopVert(mesh, loop) == mesh.polygons[(loop \div 4) + 1][(loop % 4) + 1]

(* lines 284-295: vert_idx -> the loops at the vertex *)
CreateVertLoopDict(mesh) ==
    LET loops == 0 .. (4 * Len(mesh.polygons) - 1)
        used == {LoopVert(mesh, l) : l \in loops}
    IN  [v \in used |-> {l \in loops : LoopVert(mesh, l) = v}]

(* lines 313-316 and 335: the place i of the pair a vertex of a card is in  *)
(* and whether it is the pair's vert_left; r is the vertex's index in the   *)
(* card, from 0                                                             *)
PairOf(vert_len, r) ==
    IF r < vert_len
    THEN [i |-> r, left |-> TRUE]
    ELSE [i |-> 2 * vert_len - 1 - r, left |-> FALSE]

(* lines 339-351: the uv written to the loops of a vertex of a pair; the    *)
(* division by vert_len - 1 is exact for the zones of HairzoneUvDict        *)
PairUv(chosen_zone, vert_len, pair) ==
    LET x_min == chosen_zone[1][1]
        x_max == chosen_zone[2][1]
        y_min == chosen_zone[1][2]
        y_max == chosen_zone[2][2]
        y_diff == y_max - y_min
    IN  <<IF pair.left THEN x_max ELSE x_min,
          y_min + (y_diff * pair.i) \div (vert_len - 1)>>

(* lines 271-278 for one object: the uv layer it is given.  chosen is the   *)
(* chosen_zone of each card, uv the uv of each loop; raised tells a KeyError*)
(* of lines 336-337, a vertex that is at no loop.  pick is the random draw  *)
(* of each card.                                                            *)
NewUvLayer(hairzone_uv_dict, vert_len, mesh, pick) ==
    IF SkipObject(mesh)
    THEN [skipped |-> TRUE, raised |-> FALSE, chosen |-> <<>>, uv |-> <<>>]
    ELSE LET vert_loop_dict == CreateVertLoopDict(mesh)
             cards == Cards(mesh, vert_len)
             chosen == [g \in cards |->
                           ChosenZone(hairzone_uv_dict, MeasuredLength2(mesh, vert_len, g),
                                      MeasuredWidth2(mesh, vert_len, g), pick[g])]
             card_of(v) == (v \div (2 * vert_len)) + 1
         IN  IF \E v \in 0 .. (Len(mesh.vertices) - 1) : v \notin DOMAIN vert_loop_dict
             THEN [skipped |-> FALSE, raised |-> TRUE, chosen |-> chosen, uv |-> <<>>]
             ELSE [skipped |-> FALSE, raised |-> FALSE, chosen |-> chosen,
                   uv |-> [l \in 0 .. (4 * Len(mesh.polygons) - 1) |->
                              LET v == LoopVert(mesh, l)
                              IN  PairUv(chosen[card_of(v)], vert_len,
                                         PairOf(vert_len, v % (2 * vert_len)))]]

MaxOps == 2

(* an operation that follows create_mesh may be called *)
MayCall == pc = "ready" /\ ops < MaxOps

(* one iteration of the loop of lines 270-278 has given the object at key   *)
(* name the uv layer `layer`; a KeyError ends the call                      *)
UvLayerAdded(name, layer) ==
    /\ uv_layers' =
          LET id == ObjId(objects[name])
          IN  [x \in (DOMAIN uv_layers) \cup {id} |->
                  IF x = id
                  THEN Append(IF id \in DOMAIN uv_layers THEN uv_layers[id] ELSE <<>>, layer)
                  ELSE uv_layers[x]]
    /\ uv_todo' = IF layer.raised THEN {} ELSE uv_todo \ {name}
    /\ pc' = IF layer.raised THEN "ready" ELSE pc
    /\ status' = IF layer.raised THEN [status EXCEPT !.result = "KeyError"] ELSE status

(* lines 271-278 for the object at key name, whose mesh is `mesh`, with any *)
(* outcome of its random choices                                            *)
UvIteration(name, mesh) ==
    \E pick \in [(IF SkipObject(mesh) THEN {} ELSE Cards(mesh, name)) -> Picks] :
        /\ \A g \in DOMAIN pick :
              DrawsInRange(HairzoneUvDict, MeasuredLength2(mesh, name, g),
                           MeasuredWidth2(mesh, name, g), pick[g])
        /\ UvLayerAdded(name, NewUvLayer(HairzoneUvDict, name, mesh, pick))

MaxUvLayers == 1

(* the number of uv layers of the objects *)
RECURSIVE CountLayers(_, _)
CountLayers(layers, ids) ==
    IF ids = {} THEN 0
    ELSE LET id == CHOOSE x \in ids : TRUE
         IN  Len(layers[id]) + CountLayers(layers, ids \ {id})

(* add_uvs() is called: lines 261-268 *)
AddUvsBegin ==
    /\ MayCall
    /\ CountLayers(uv_layers, DOMAIN uv_layers) < MaxUvLayers
    /\ pc' = "add_uvs"
    /\ uv_todo' = DOMAIN objects
    /\ status' = [op |-> "add_uvs", args |-> <<>>, result |-> "running"]
    /\ ops' = ops + 1
    /\ hair_source' = Used(hair_source, "add_uvs")
    /\ UNCHANGED <<extract_vars, mesh_vars, human, renaming, uv_layers, removed_faces, data_materials,
                   material, obj_materials, haircap_obj, cap_frame>>

(* one iteration of `for vert_len, obj in self.objects.items()`.  The       *)
(* objects are taken by ascending vert_len; their order shows only when an  *)
(* iteration raises.                                                        *)
AddUvsObject ==
    /\ pc = "add_uvs"
    /\ uv_todo # {}
    /\ LET name == CHOOSE x \in uv_todo : \A y \in uv_todo : x <= y
       IN  UvIteration(name, MeshOf(objects[name], hair_coords, nearest_normals,
                                    removed_faces))
    /\ hair_source' = Used(hair_source, "add_uvs")
    /\ UNCHANGED <<extract_vars, mesh_vars, human, renaming, removed_faces, data_materials, material,
                   obj_materials, haircap_obj, cap_frame, ops>>

(* the loop is over: add_uvs returns *)
AddUvsReturn ==
    /\ pc = "add_uvs"
    /\ uv_todo = {}
    /\ pc' = "ready"
    /\ status' = [status EXCEPT !.result = "ok"]
    /\ hair_source' = Used(hair_source, "add_uvs")
    /\ UNCHANGED <<extract_vars, mesh_vars, human, renaming, uv_layers, removed_faces, data_materials,
                   material, obj_materials, haircap_obj, cap_frame, uv_todo, ops>>

(* the polygons of an object of self.objects are removed in the scene,      *)
(* between two operations of the collection; line 273 reads them            *)
RemoveFaces ==
    /\ MayCall
    /\ \E name \in DOMAIN objects :
          /\ ObjId(objects[name]) \notin removed_faces
          /\ removed_faces' = removed_faces \cup {ObjId(objects[name])}
    /\ ops' = ops + 1
    /\ UNCHANGED <<extract_vars, pc, mesh_vars, hair_source, human, renaming, uv_layers, data_materials,
                   material, obj_materials, haircap_obj, cap_frame, uv_todo, status>>

-----------------------------------------------------------------------------
(* add_material (lines 353-372) and set_node_values (lines 435-460).  A     *)
(* material is the inputs of its ShaderNodeGroup node.                      *)

(* the HG_Haircards material of haircards_material.blend *)
BlendMaterial == [Lightness |-> 0, Redness |-> 0]

(* the material of the HG_Haircap object of haircap.blend *)
BlendCapMaterial == [Lightness |-> 1, Redness |-> 1]

(* lines 354-367: bpy.data.materials after the call; the new material is    *)
(* its last entry                                                           *)
MaterialsAfterAdd(mats) ==
    IF mats = <<>> THEN <<BlendMaterial>> ELSE Append(mats, mats[1])

(* add_material() *)
AddMaterial ==
    /\ MayCall
    /\ data_materials' = MaterialsAfterAdd(data_materials)
    /\ material' = Len(data_materials')
    /\ LET ids == {ObjId(objects[name]) : name \in DOMAIN objects}
       IN  obj_materials' =
               [id \in (DOMAIN obj_materials) \cup ids |->
                   LET old == IF id \in DOMAIN obj_materials THEN obj_materials[id] ELSE <<>>
                   IN  IF id \in ids THEN Append(old, material') ELSE old]
    /\ status' = [op |-> "add_material", args |-> <<>>, result |-> "ok"]
    /\ ops' = ops + 1
    /\ hair_source' = Used(hair_source, "add_material")
    /\ UNCHANGED <<extract_vars, pc, mesh_vars, human, renaming, uv_layers, removed_faces, haircap_obj,
                   cap_frame, uv_todo>>

(* lines 438-440: whether the haircap material is found (else cap_material *)
(* is None) and whether reading it raises AttributeError                    *)
CapMaterialUnchecked(self_haircap_obj) ==
    [found |-> self_haircap_obj.exists, raised |-> ~self_haircap_obj.exists]

CapMaterial(self_haircap_obj) ==
    [found |-> self_haircap_obj.exists, raised |-> FALSE]

(* lines 458-460 for one inp_name, unless an earlier input raised:           *)
(* node.inputs[inp_name] and old_node.inputs[inp_name] raise KeyError for a *)
(* name the node has no input of                                            *)
CopyInput(copied, old_node, inp_name) ==
    IF copied.raised THEN copied
    ELSE IF inp_name \notin DOMAIN copied.node \/ inp_name \notin DOMAIN old_node
    THEN [copied EXCEPT !.raised = TRUE]
    ELSE [copied EXCEPT !.node = [@ EXCEPT ![inp_name] = old_node[inp_name]]]

(* lines 457-460: the inputs Lightness and Redness of node are given the    *)
(* values of old_node's, in this order; raised tells a KeyError             *)
CopyInputs(node, old_node) ==
    CopyInput(CopyInput([node |-> node, raised |-> FALSE], old_node, "Lightness"),
              old_node, "Redness")

(* lines 449-460: the loop over (card_material, cap_material), given the    *)
(* outcome of the copy to each; a KeyError in the first ends the call       *)
NodeValuesCopied(cap_material, card, cap) ==
    /\ data_materials' = [data_materials EXCEPT ![material] = card.node]
    /\ haircap_obj' =
          IF cap_material.found /\ ~card.raised
          THEN [haircap_obj EXCEPT !.node = cap.node]
          ELSE haircap_obj
    /\ status' = [op |-> "set_node_values", args |-> <<>>,
                  result |-> IF card.raised \/ (cap_material.found /\ cap.raised)
                             THEN "KeyError" ELSE "ok"]

(* set_node_values(human): line 436 raises AttributeError while             *)
(* self.material is unset                                                   *)
SetNodeValues ==
    /\ MayCall
    /\ LET cap_material == CapMaterial(haircap_obj)
           old_node == human.hair_node
       IN  IF material = 0 \/ cap_material.raised
           THEN /\ status' = [op |-> "set_node_values", args |-> <<>>,
                              result |-> "AttributeError"]
                /\ UNCHANGED <<data_materials, haircap_obj>>
           ELSE NodeValuesCopied(cap_material,
                                 CopyInputs(data_materials[material], old_node),
                                 CopyInputs(haircap_obj.node, old_node))
    /\ ops' = ops + 1
    /\ hair_source' = Used(hair_source, "set_node_values")
    /\ UNCHANGED <<extract_vars, pc, mesh_vars, human, renaming, uv_layers, removed_faces, material,
                   obj_materials, cap_frame, uv_todo>>

-----------------------------------------------------------------------------
(* add_haircap (lines 375-433) *)

(* vg.weight(i): RuntimeError for a vertex that is not assigned to vg *)
VgWeight(vg, i) ==
    IF i \in DOMAIN vg
    THEN [raised |-> FALSE, weight |-> vg[i]]
    ELSE [raised |-> TRUE, weight |-> 0]

(* lines 387-390: vg_values[i], 0 where vg.weight(i) raised *)
VgValue(vg, i) ==
    LET w == VgWeight(vg, i)
    IN  IF w.raised THEN 0 ELSE w.weight

RECURSIVE VgSum(_, _, _, _)
(* lines 384-391: vg_aggregate[i] after the groups from place `from` on *)
VgSum(groups, density_vertex_groups, from, i) ==
    IF from > Len(density_vertex_groups) THEN 0
    ELSE VgValue(groups[density_vertex_groups[from]], i)
         + VgSum(groups, density_vertex_groups, from + 1, i)

(* line 393: np.round(x, 4), to the nearest multiple of 0.0001, a half to   *)
(* the even one                                                             *)
Round4(x) ==
    LET q == x \div 10
        r == x % 10
    IN  IF r < 5 THEN 10 * q
        ELSE IF r > 5 THEN 10 * (q + 1)
        ELSE IF q % 2 = 0 THEN 10 * q ELSE 10 * (q + 1)

(* line 394: np.clip(x, 0, 1) *)
ClipBelowOnly(x) == IF x < 0 THEN 0 ELSE x

Clip(x) == IF x < 0 THEN 0 ELSE IF x > One THEN One ELSE x

(* lines 382-394 *)
VgAggregate(hum, density_vertex_groups) ==
    [i \in DOMAIN hum.body_co |->
        Clip(Round4(VgSum(hum.groups, density_vertex_groups, 1, i)))]

(* the HG_Haircap objects haircap.blend may hold: world coordinates of the  *)
(* vertices (from 0), faces, and edges (those of the faces and loose ones)  *)
FaceEdges(faces) ==
    UNION {{{faces[f][a], faces[f][b]} : a, b \in DOMAIN faces[f]} \ {{faces[f][a]} : a \in DOMAIN faces[f]}
              : f \in DOMAIN faces}

CapFan ==
    LET faces == << <<0, 1, 2>>, <<0, 2, 3>>, <<0, 3, 4>>, <<0, 4, 1>> >>
    IN  [co |-> (0 :> <<0, 0, 0>>) @@ (1 :> <<250, 0, 0>>) @@ (2 :> <<0, 250, 0>>)
                @@ (3 :> <<-100, 0, 0>>) @@ (4 :> <<0, -100, 0>>),
         faces |-> faces, edges |-> FaceEdges(faces)]

CapClosed ==
    LET faces == << <<0, 1, 2>>, <<0, 1, 3>>, <<0, 2, 3>>, <<1, 2, 3>> >>
    IN  [co |-> (0 :> <<0, 0, 0>>) @@ (1 :> <<250, 0, 0>>) @@ (2 :> <<0, 250, 0>>)
                @@ (3 :> <<0, 0, 100>>),
         faces |-> faces, edges |-> FaceEdges(faces)]

CapLoose ==
    LET faces == << <<0, 1, 2>> >>
    IN  [co |-> (0 :> <<0, 0, 0>>) @@ (1 :> <<250, 0, 0>>) @@ (2 :> <<0, 250, 0>>)
                @@ (3 :> <<260, 10, 0>>) @@ (4 :> <<0, 0, 10>>),
         faces |-> faces, edges |-> FaceEdges(faces) \cup {{2, 3}}]

HaircapMeshes == {CapFan, CapClosed, CapLoose}

(* the density_vertex_groups arguments explored *)
GroupLists == {<<>>, <<"A">>, <<"C">>, <<"A", "B">>, <<"B", "C">>, <<"A", "B", "C">>}

(* lines 407-415: the haircap vertices moved by the difference between the  *)
(* evaluated and the base position of the nearest base body vertex          *)
DeformObjFromDifference(hum, haircap_world_coords) ==
    [i \in DOMAIN haircap_world_coords |->
        LET n == KdFind(hum.body_base_co, haircap_world_coords[i])
        IN  Add(haircap_world_coords[i], Sub(hum.body_co[n], hum.body_base_co[n]))]

(* lines 418-421: vc.data[i].color after the painting loop *)
PaintedColor(hum, vg_aggregate, haircap_world_coords) ==
    [i \in DOMAIN haircap_world_coords |->
        LET nearest_vert_index == KdFind(hum.body_co, haircap_world_coords[i])
            value == vg_aggregate[nearest_vert_index]
        IN  <<value, value, value, One>>]

(* edge.is_boundary: the edge is an edge of exactly one face *)
IsBoundary(faces, edge) ==
    Cardinality({f \in DOMAIN faces : edge \subseteq {faces[f][a] : a \in DOMAIN faces[f]}}) = 1

(* lines 425-429, zeroing the wire edges too *)
ZeroedOnEveryEdge(color, faces, edges) ==
    [i \in DOMAIN color |->
        IF \E edge \in edges : i \in edge THEN <<0, 0, 0, One>> ELSE color[i]]

(* lines 425-429 *)
Zeroed(color, faces, edges) ==
    [i \in DOMAIN color |->
        IF \E edge \in edges : IsBoundary(faces, edge) /\ i \in edge
        THEN <<0, 0, 0, One>>
        ELSE color[i]]

(* add_haircap(human, density_vertex_groups) up to line 421: the haircap is *)
(* loaded, deformed and painted                                             *)
AddHaircapPaint(density_vertex_groups, cap) ==
    /\ MayCall
    /\ LET vg_aggregate == VgAggregate(human, density_vertex_groups)
           haircap_world_coords == cap.co
       IN  cap_frame' =
               [active |-> TRUE,
                haircap_world_coords |-> haircap_world_coords,
                haircap_obj |->
                    [exists |-> TRUE,
                     co |-> DeformObjFromDifference(human, haircap_world_coords),
                     faces |-> cap.faces, edges |-> cap.edges,
                     color |-> PaintedColor(human, vg_aggregate, haircap_world_coords),
                     node |-> BlendCapMaterial]]
    /\ pc' = "add_haircap"
    /\ status' = [op |-> "add_haircap", args |-> density_vertex_groups, result |-> "running"]
    /\ ops' = ops + 1
    /\ hair_source' = Used(hair_source, "add_haircap")
    /\ UNCHANGED <<extract_vars, mesh_vars, human, renaming, uv_layers, removed_faces, data_materials,
                   material, obj_materials, haircap_obj, uv_todo>>

(* add_haircap from line 423 to its return: the colour of the boundary      *)
(* vertices is zeroed, self.haircap_obj is set                              *)
AddHaircapZero ==
    /\ pc = "add_haircap"
    /\ LET cap == cap_frame.haircap_obj
       IN  haircap_obj' = [cap EXCEPT !.color = Zeroed(cap.color, cap.faces, cap.edges)]
    /\ cap_frame' = NoCapFrame
    /\ pc' = "ready"
    /\ status' = [status EXCEPT !.result = "ok"]
    /\ hair_source' = Used(hair_source, "add_haircap")
    /\ UNCHANGED <<extract_vars, mesh_vars, human, renaming, uv_layers, removed_faces, data_materials,
                   material, obj_materials, uv_todo, ops>>

-----------------------------------------------------------------------------
(* Hair meshes of disjoint strands, for the operations that follow the      *)
(* constructor                                                              *)

RECURSIVE RunRange(_, _, _, _, _, _)
(* the loop of lines 82-91 over start_verts[lo .. hi], stopped by the first *)
(* exception; halving keeps the evaluation shallow                          *)
RunRange(st, svs, lo, hi, le, co) ==
    IF st.raised \/ lo > hi THEN st
    ELSE IF lo = hi THEN LoopBody(st, svs[lo], le, co)
    ELSE LET mid == (lo + hi) \div 2
         IN  RunRange(RunRange(st, svs, lo, mid, le, co), svs, mid + 1, hi, le, co)

(* _get_individual_hairs run to its end or to its first exception *)
RunExtraction(le, co) ==
    RunRange([cursor |-> 1, found_verts |-> {}, tag |-> [v \in DOMAIN le |-> FALSE],
              hairs |-> <<>>, raised |-> FALSE],
             StartVerts(le), 1, Len(StartVerts(le)), le, co)

(* strand shapes: point sequences in units of 0.001 *)
ShapeTwo == << <<0, 0, 0>>, <<200, 0, 0>> >>
ShapeShort20 == << <<0, 0, 0>>, <<20, 0, 0>>, <<25, 0, 0>> >>
ShapeShort50 == << <<0, 0, 0>>, <<30, 40, 0>>, <<60, 40, 0>> >>
ShapeMedium70 == << <<0, 0, 0>>, <<35, 4, 0>>, <<70, 0, 0>>, <<90, 0, 0>> >>
ShapeMedium100 == << <<0, 0, 0>>, <<100, 0, 0>>, <<130, 0, 0>> >>
ShapeLong150 ==
    << <<0, 0, 0>>, <<50, 0, 0>>, <<100, 3, 0>>, <<150, 0, 0>>, <<160, 0, 0>> >>

Shapes == {ShapeTwo, ShapeShort20, ShapeShort50, ShapeMedium70, ShapeMedium100, ShapeLong150}

ClassShapes == {ShapeShort20, ShapeMedium70, ShapeLong150}

MaxFewStrands == 2
MaxManyStrands == 36

(* a few strands of any shapes *)
FewStrands == UNION {[1 .. n -> Shapes] : n \in 0 .. MaxFewStrands}

(* three strands of lengths 0.02, 0.07 and 0.15 *)
ExampleStrands == <<ShapeShort20, ShapeMedium70, ShapeLong150>>

(* many strands: shape b at every 7th place, shape a elsewhere *)
ManyStrands ==
    {[i \in 1 .. n |-> IF i % 7 = 0 THEN b ELSE a] :
        n \in BucketLimit .. MaxManyStrands, a \in ClassShapes, b \in ClassShapes}

(* the vertices of strand j: for each its coordinate (the strand's shape    *)
(* moved by its number along z) and whether it has a predecessor and a      *)
(* successor on the strand                                                  *)
StrandVerts(shape, j) ==
    [i \in 1 .. Len(shape) |->
        [co |-> <<shape[i][1], shape[i][2], shape[i][3] + j>>,
         prev |-> i > 1, next |-> i < Len(shape)]]

RECURSIVE Flatten(_, _, _)
(* the vertices of the strands lo .. hi, numbered strand after strand *)
Flatten(shapes, lo, hi) ==
    IF lo > hi THEN <<>>
    ELSE IF lo = hi THEN StrandVerts(shapes[lo], lo)
    ELSE LET mid == (lo + hi) \div 2
         IN  Flatten(shapes, lo, mid) \o Flatten(shapes, mid + 1, hi)

StrandMesh(shapes) ==
    LET flat == Flatten(shapes, 1, Len(shapes))
        vs == 0 .. (Len(flat) - 1)
    IN  [le |-> [v \in vs |-> (IF flat[v + 1].prev THEN <<v - 1>> ELSE <<>>)
                              \o (IF flat[v + 1].next THEN <<v + 1>> ELSE <<>>)],
         co |-> [v \in vs |-> flat[v + 1].co]]

(* a HairCollection as its constructor leaves it, built for the human hum   *)
(* from the hair mesh m with bpy.data.materials as mats                      *)
Constructed(m, hum, mats) ==
        LET st == RunExtraction(m.le, m.co)
        IN  /\ ~st.raised
            /\ PostInit(hum, mats)
            /\ link_edges = m.le
            /\ hair_coords = m.co
            /\ nearest_normals = NearestNormals(human, m.co)
            /\ hair_source = [LiveSource EXCEPT !.bm = "freed", !.hair_obj = "deleted",
                                                !.deletes = 1]
            /\ tag = st.tag
            /\ start_verts = StartVerts(m.le)
            /\ cursor = st.cursor
            /\ found_verts = st.found_verts
            /\ hairs = st.hairs
            /\ pc = "ready"
            /\ gen = NoGen
            /\ yielded = <<>>
            /\ objects = <<>>
            /\ calls = 0

InitMesh ==
    \E shapes \in FewStrands \cup {ExampleStrands} \cup ManyStrands :
        Constructed(StrandMesh(shapes), HumanWith(2, 3), <<>>)

NextMesh ==
    \/ \E quality \in Qualities : CreateMesh(quality)
    \/ GenNextYield
    \/ GenNextStop

SpecMesh == InitMesh /\ [][NextMesh]_vars

-----------------------------------------------------------------------------
(* Haircards and their UVs: create_mesh and add_uvs on strands whose        *)
(* simplified segments run along the axes                                   *)

(* a long straight strand under a body normal across it: 2 simplified points *)
CardLong2 == << <<0, 0, 0>>, <<60, 0, 0>>, <<120, 0, 0>>, <<125, 0, 0>> >>

(* a strand of length 0.004: 2 simplified points *)
CardTiny == << <<0, 0, 0>>, <<2, 0, 0>>, <<4, 0, 0>> >>

(* a long straight strand along the body normal: 2 simplified points *)
CardAlongNormal == << <<200, 0, 0>>, <<260, 0, 0>>, <<320, 0, 0>>, <<325, 0, 0>> >>

(* strands of length 0.005 and 0.010: 2 simplified points *)
CardFive == << <<0, 0, 0>>, <<2, 0, 0>>, <<5, 0, 0>> >>

CardTen == << <<0, 0, 0>>, <<5, 0, 0>>, <<10, 0, 0>> >>

(* an L: 3 simplified points *)
CardL3 == << <<0, 0, 0>>, <<60, 0, 0>>, <<60, 30, 0>>, <<60, 35, 0>> >>

(* a stair: 4 simplified points *)
CardStair4 ==
    << <<0, 0, 0>>, <<60, 0, 0>>, <<60, 20, 0>>, <<120, 20, 0>>, <<125, 20, 0>> >>

CardStrandLists ==
    { <<CardLong2>>, <<CardL3>>, <<CardTiny, CardLong2>>, <<CardAlongNormal, CardStair4>>,
      <<CardStair4, CardL3>>, <<CardL3, CardL3>>, <<CardLong2, CardAlongNormal>>,
      <<CardFive>>, <<CardTen>> }

InitCard ==
    \E shapes \in CardStrandLists : Constructed(StrandMesh(shapes), HumanWith(2, 3), <<>>)

NextCard ==
    \/ \E quality \in {"high", "low"} : CreateMesh(quality)
    \/ GenNextYield
    \/ GenNextStop

SpecCard == InitCard /\ [][NextCard]_vars

(* a strand with a bump of 0.004: 4 simplified points at the epsilon 0.003   *)
(* of the tier high, 2 at the 0.005 of the tier low                         *)
CardBump == << <<0, 0, 0>>, <<0, 4, 0>>, <<60, 4, 0>>, <<60, 0, 0>> >>

CallsStrandLists == { <<CardBump>>, <<CardTiny, CardBump>>, <<CardL3>> }

InitCalls ==
    \E shapes \in CallsStrandLists : Constructed(StrandMesh(shapes), HumanWith(2, 3), <<>>)

(* create_mesh calls of either tier, with add_uvs and add_material in       *)
(* between                                                                  *)
NextCalls ==
    \/ \E quality \in {"high", "low"} : CreateMesh(quality)
    \/ GenNextYield
    \/ GenNextStop
    \/ AddUvsBegin
    \/ AddUvsObject
    \/ AddUvsReturn
    \/ AddMaterial

SpecCalls == InitCalls /\ [][NextCalls]_vars

-----------------------------------------------------------------------------
(* Renaming from JSON (src/human/process/process.py).  A name is a sequence *)
(* of pieces: the replacement fields {name}, {original_name}, {custom} and  *)
(* literal text.                                                            *)

Tokens == {"{name}", "{original_name}", "{custom}"}

(* process.py line 31: str.format on name, with kwargs as its fields *)
RECURSIVE Format(_, _)
Format(name, kwargs) ==
    IF name = <<>> THEN <<>>
    ELSE (IF Head(name) \in DOMAIN kwargs THEN kwargs[Head(name)] ELSE <<Head(name)>>)
         \o Format(Tail(name), kwargs)

(* process.py lines 21-34 *)
FillTokens(name, human_name, original_name, custom_token, suffix) ==
    LET present == {t \in Tokens : \E i \in DOMAIN name : name[i] = t}
        kwargs == [t \in present |->
                      CASE t = "{name}" -> human_name
                        [] t = "{original_name}" -> original_name
                        [] t = "{custom}" -> custom_token]
        formatted == Format(name, kwargs)
    IN  IF suffix # <<>> THEN formatted \o suffix ELSE formatted

(* process.py lines 107 and 145: the keys of the JSON that name no item *)
SkippedTypes == {"bl_rna", "rna_type", "name", "materials", "use_suffix"}

(* the human whose items are renamed: its name, the names of its objects    *)
(* and materials, the object attributes of Human (None: no such object),    *)
(* the objects of the outfit and of the footwear, and the attributes of     *)
(* human.materials, one material or a list of them                          *)
RenameHuman ==
    [body_co |-> BodyCoords, body_base_co |-> BodyBaseCoords,
     body_normals |-> BodyNormals, groups |-> VertexGroups,
     hair_node |-> [Lightness |-> 2, Redness |-> 3],
     name |-> <<"Ann">>,
     item_name |-> [body |-> <<"HG_Body">>, shirt |-> <<"Shirt">>, pants |-> <<"Pants">>,
                    shoes |-> <<"Shoes">>, skin |-> <<".Human">>,
                    cloth |-> <<"Cloth">>, leather |-> <<"Leather">>],
     obj_attrs |-> [body_obj |-> "body", haircards_obj |-> "None"],
     outfit_objects |-> <<"shirt", "pants">>,
     footwear_objects |-> <<"shoes">>,
     mat_attrs |-> [body |-> <<"skin">>, clothing |-> <<"cloth", "leather">>,
                    haircards |-> <<"None">>],
     mat_is_list |-> [body |-> FALSE, clothing |-> TRUE, haircards |-> FALSE]]

(* the JSON dictionaries of the explored calls, as their items() *)
ObjectData ==
    { << [type |-> "use_suffix", new_name |-> <<"True">>],
         [type |-> "body_obj", new_name |-> <<"{name}", "_Body">>],
         [type |-> "clothing", new_name |-> <<"{name}", "_", "{original_name}">>] >>,
      << [type |-> "clothing", new_name |-> <<"{custom}", "_Clothing">>],
         [type |-> "haircards_obj", new_name |-> <<"{name}", "_Hair">>] >>,
      << [type |-> "tail_obj", new_name |-> <<"Tail">>],
         [type |-> "clothing", new_name |-> <<"{original_name}">>] >> }

MaterialData ==
    { << [type |-> "name", new_name |-> <<"preset">>],
         [type |-> "body", new_name |-> <<"{name}", "_Skin">>],
         [type |-> "clothing", new_name |-> <<"{name}", "_", "{original_name}">>] >>,
      << [type |-> "clothing", new_name |-> <<"{custom}", "_Mat">>],
         [type |-> "haircards", new_name |-> <<"{name}", "_Hair">>] >>,
      << [type |-> "body", new_name |-> <<"{original_name}">>],
         [type |-> "tail", new_name |-> <<"Tail">>],
         [type |-> "clothing", new_name |-> <<"{original_name}">>] >> }

CustomTokens == {<<>>, <<"v2">>}

Suffixes == {<<>>, <<"_LOD0">>}

(* the frame of a call entered with the JSON data: lines 98-104, 136-142 *)
RenameFrame(call, data, custom_token, suffix) ==
    [NoRenaming EXCEPT !.call = call, !.args = data, !.data = data,
                       !.custom_token = custom_token, !.suffix = suffix]

(* rename_objects_from_json(json_string, custom_token, suffix) is called *)
RenameObjectsFromJson(data, custom_token, suffix) ==
    /\ pc = "ready"
    /\ renaming.call = "none"
    /\ renaming' = RenameFrame("objects", data, custom_token, suffix)
    /\ UNCHANGED <<extract_vars, pc, mesh_vars, hair_source, human, uv_layers, removed_faces,
                   data_materials, material, obj_materials, haircap_obj, cap_frame, uv_todo,
                   status, ops>>

(* rename_materials_from_json(json_string, custom_token, suffix) is called *)
RenameMaterialsFromJson(data, custom_token, suffix) ==
    /\ pc = "ready"
    /\ renaming.call = "none"
    /\ renaming' = RenameFrame("materials", data, custom_token, suffix)
    /\ UNCHANGED <<extract_vars, pc, mesh_vars, hair_source, human, uv_layers, removed_faces,
                   data_materials, material, obj_materials, haircap_obj, cap_frame, uv_todo,
                   status, ops>>

(* process.py lines 107-118: the objects of the entry obj_type; a type that *)
(* is no attribute of the human is logged and left out                      *)
ObjsOf(hum, obj_type) ==
    IF obj_type \in SkippedTypes THEN <<>>
    ELSE IF obj_type = "clothing" THEN hum.outfit_objects \o hum.footwear_objects
    ELSE IF obj_type \in DOMAIN hum.obj_attrs THEN <<hum.obj_attrs[obj_type]>>
    ELSE <<>>

(* process.py lines 145-149: the materials of the entry mat_type *)
MatsOf(hum, mat_type) ==
    IF mat_type \in SkippedTypes THEN <<>> ELSE hum.mat_attrs[mat_type]

(* the head of `for obj_type, new_name in data.items()` (lines 106, 144):   *)
(* the next entry is taken and its items are found; getattr raises for a    *)
(* material type that human.materials has not                               *)
RenameNextEntry ==
    /\ renaming.call \in {"objects", "materials"}
    /\ renaming.items = <<>>
    /\ renaming.data # <<>>
    /\ LET entry == Head(renaming.data)
       IN  IF /\ renaming.call = "materials"
              /\ entry.type \notin SkippedTypes
              /\ entry.type \notin DOMAIN human.mat_attrs
           THEN renaming' = [renaming EXCEPT !.call = "AttributeError"]
           ELSE renaming' =
                    [renaming EXCEPT
                        !.data = Tail(@),
                        !.type = entry.type,
                        !.new_name = entry.new_name,
                        !.items = IF renaming.call = "objects"
                                  THEN ObjsOf(human, entry.type)
                                  ELSE MatsOf(human, entry.type)]
    /\ UNCHANGED <<extract_vars, pc, mesh_vars, hair_source, human, uv_layers, removed_faces,
                   data_materials, material, obj_materials, haircap_obj, cap_frame, uv_todo,
                   status, ops>>

(* one iteration of `for obj in objs` (lines 120-127) or `for mat in mats`  *)
(* (lines 151-157); the renames made are logged                             *)
RenameItem ==
    /\ renaming.call \in {"objects", "materials"}
    /\ renaming.items # <<>>
    /\ LET obj == Head(renaming.items)
           new_name == FillTokens(renaming.new_name, human.name, human.item_name[obj],
                                  renaming.custom_token, renaming.suffix)
       IN  IF obj = "None"
           THEN /\ renaming' = [renaming EXCEPT !.items = Tail(@)]
                /\ UNCHANGED human
           ELSE /\ renaming' =
                      [renaming EXCEPT
                          !.items = Tail(@),
                          !.new_name = new_name,
                          !.log = Append(@, [item |-> obj, type |-> renaming.type,
                                             original_name |-> human.item_name[obj],
                                             given |-> new_name])]
                /\ human' = [human EXCEPT !.item_name[obj] = new_name]
    /\ UNCHANGED <<extract_vars, pc, mesh_vars, hair_source, uv_layers, removed_faces,
                   data_materials, material, obj_materials, haircap_obj, cap_frame, uv_todo,
                   status, ops>>

(* the loop over data.items() is over: the call returns *)
RenameReturn ==
    /\ renaming.call \in {"objects", "materials"}
    /\ renaming.items = <<>>
    /\ renaming.data = <<>>
    /\ renaming' = [renaming EXCEPT !.call = "returned"]
    /\ UNCHANGED <<extract_vars, pc, mesh_vars, hair_source, human, uv_layers, removed_faces,
                   data_materials, material, obj_materials, haircap_obj, cap_frame, uv_todo,
                   status, ops>>

InitRename == Constructed(StrandMesh(<<CardTiny>>), RenameHuman, <<>>)

NextRename ==
    \/ \E data \in ObjectData, custom_token \in CustomTokens, suffix \in Suffixes :
          RenameObjectsFromJson(data, custom_token, suffix)
    \/ \E data \in MaterialData, custom_token \in CustomTokens, suffix \in Suffixes :
          RenameMaterialsFromJson(data, custom_token, suffix)
    \/ RenameNextEntry
    \/ RenameItem
    \/ RenameReturn

SpecRename == InitRename /\ [][NextRename]_vars

UvStrandLists ==
    { <<CardLong2>>, <<CardTiny>>, <<CardAlongNormal, CardStair4>> }

InitUV ==
    \E shapes \in UvStrandLists : Constructed(StrandMesh(shapes), HumanWith(2, 3), <<>>)

NextUV ==
    \/ CreateMesh("high")
    \/ GenNextYield
    \/ GenNextStop
    \/ RemoveFaces
    \/ AddUvsBegin
    \/ AddUvsObject
    \/ AddUvsReturn

SpecUV == InitUV /\ [][NextUV]_vars

-----------------------------------------------------------------------------
(* Materials and the haircap: add_material, add_haircap, set_node_values    *)

InitCap ==
    \E hum \in Humans, mats \in {<<>>, <<BlendMaterial>>} :
        Constructed(StrandMesh(<<CardLong2>>), hum, mats)

NextCap ==
    \/ AddMaterial
    \/ \E density_vertex_groups \in GroupLists, cap \in HaircapMeshes :
          AddHaircapPaint(density_vertex_groups, cap)
    \/ AddHaircapZero
    \/ SetNodeValues

SpecCap == InitCap /\ [][NextCap]_vars

(* set_node_values on materials whose node group may lack an input: the     *)
(* HG_Haircards material bpy.data.materials holds before add_material       *)
NodeMaterials ==
    {BlendMaterial, [Lightness |-> 5], [Redness |-> 5], [Lightness |-> 5, Redness |-> 5]}

InitNode ==
    \E hum \in Humans, mat \in NodeMaterials :
        Constructed(StrandMesh(<<CardLong2>>), hum, <<mat>>)

NextNode ==
    \/ AddMaterial
    \/ AddHaircapPaint(<<"A">>, CapFan)
    \/ AddHaircapZero
    \/ SetNodeValues

SpecNode == InitNode /\ [][NextNode]_vars

-----------------------------------------------------------------------------
(* The life of a HairCollection: its constructor, then its operations in    *)
(* any order                                                                *)

(* a hair mesh with a branch: the extraction raises on it *)
BranchedMesh ==
    [le |-> (0 :> <<1>>) @@ (1 :> <<0, 2, 3>>) @@ (2 :> <<1>>) @@ (3 :> <<1>>),
     co |-> (0 :> <<0, 0, 0>>) @@ (1 :> <<30, 0, 0>>) @@ (2 :> <<60, 0, 0>>)
            @@ (3 :> <<30, 30, 0>>)]

LifeMeshes == {StrandMesh(<<CardStair4>>), StrandMesh(<<CardTiny, CardLong2>>), BranchedMesh}

(* __init__ entered at line 52 *)
InitLife ==
    /\ \E m \in LifeMeshes : link_edges = m.le /\ hair_coords = m.co
    /\ PostInit(HumanWith(2, 3), <<>>)
    /\ nearest_normals = NearestNormals(human, hair_coords)
    /\ hair_source = LiveSource
    /\ tag = [v \in DOMAIN link_edges |-> FALSE]
    /\ start_verts = StartVerts(link_edges)
    /\ cursor = 1
    /\ found_verts = {}
    /\ hairs = <<>>
    /\ pc = "extract"
    /\ gen = NoGen
    /\ yielded = <<>>
    /\ objects = <<>>
    /\ calls = 0

NextLife ==
    \/ SkipFound
    \/ WalkYield
    \/ WalkRaise
    \/ ExtractDone
    \/ FreeBMesh
    \/ DeleteHairObj
    \/ CreateMesh("high")
    \/ GenNextYield
    \/ GenNextStop
    \/ RemoveFaces
    \/ AddUvsBegin
    \/ AddUvsObject
    \/ AddUvsReturn
    \/ AddMaterial
    \/ AddHaircapPaint(<<"A", "B">>, CapFan)
    \/ AddHaircapZero
    \/ SetNodeValues

SpecLife == InitLife /\ [][NextLife]_vars

-----------------------------------------------------------------------------
(* Vocabulary of the extraction properties *)

Range(s) == {s[i] : i \in DOMAIN s}

RECURSIVE Grow(_, _)
Grow(le, S) ==
    LET T == S \cup UNION {Range(le[u]) : u \in S}
    IN  IF T = S THEN S ELSE Grow(le, T)

(* the connected component of v in the hair mesh *)
ComponentOf(v) == Grow(link_edges, {v})

(* the component of v holds a degree-1 vertex *)
HasTip(v) == \E w \in ComponentOf(v) : Degree(link_edges, w) = 1

(* how often v occurs in the strands yielded so far *)
Occurrences(v) ==
    Cardinality(UNION {{<<i, j>> : j \in {k \in DOMAIN hairs[i].idxs : hairs[i].idxs[k] = v}} :
                          i \in DOMAIN hairs})

Extracted == pc \in {"free", "delete", "ready"}

(* every component is a simple open path of two or more vertices *)
SimplePaths ==
    \A v \in DOMAIN link_edges : Degree(link_edges, v) \in {1, 2} /\ HasTip(v)

Adjacent(u, v) == v \in Range(link_edges[u])

(* C1, as stated: after strand extraction the strands partition the vertex  *)
(* set of the hair mesh: every vertex is in exactly one strand, once.       *)
C1_PartitionOfAllVerts ==
    Extracted => \A v \in DOMAIN link_edges : Occurrences(v) = 1

(* C1, amended: after strand extraction every vertex of a component that    *)
(* holds a degree-1 vertex is in exactly one strand, exactly once, and a    *)
(* vertex of a component without a degree-1 vertex (an isolated vertex, a   *)
(* closed loop) is in no strand.                                            *)
C1_PartitionOfSeededComponents ==
    Extracted =>
        \A v \in DOMAIN link_edges : Occurrences(v) = IF HasTip(v) THEN 1 ELSE 0

C1_Witness ==
    /\ Extracted
    /\ Len(hairs) >= 1
    /\ \E v \in DOMAIN link_edges : ~HasTip(v)

(* C2: on a mesh of disjoint simple open paths the extraction does not      *)
(* raise, every strand lists all the vertices of one path, each once, with  *)
(* consecutive entries joined by an edge and a degree-1 vertex first, and   *)
(* when it is over every path has exactly one strand.                       *)
C2_OneOrderedStrandPerPath ==
    SimplePaths =>
        /\ pc # "raised"
        /\ \A i \in DOMAIN hairs :
              LET s == hairs[i].idxs
              IN  /\ Range(s) = ComponentOf(s[1])
                  /\ Len(s) = Cardinality(Range(s))
                  /\ Degree(link_edges, s[1]) = 1
                  /\ \A j \in 1 .. (Len(s) - 1) : Adjacent(s[j], s[j + 1])
        /\ Extracted => \A v \in DOMAIN link_edges : Occurrences(v) = 1

C2_Witness ==
    /\ SimplePaths
    /\ Extracted
    /\ \E i \in DOMAIN hairs :
          LET s == hairs[i].idxs
          IN  Len(s) >= 3 /\ \E j \in 1 .. (Len(s) - 1) : s[j] > s[j + 1]

(* C3: whatever the hair mesh (branched components, cycles), no vertex index*)
(* is yielded in more than one strand and none twice in one strand.         *)
C3_NoVertexYieldedTwice ==
    \A v \in DOMAIN link_edges : Occurrences(v) <= 1

C3_Witness ==
    /\ Len(hairs) >= 1
    /\ \E v \in Range(hairs[1].idxs) :
          /\ Degree(link_edges, v) >= 3
          /\ Cardinality({w \in ComponentOf(v) : Degree(link_edges, w) = 1}) >= 3

(* C4: the length recorded with a strand is the distance between the        *)
(* coordinates of its first and of its second-to-last vertex (index -2).    *)
C4_LengthToSecondToLast ==
    \A i \in DOMAIN hairs :
        LET s == hairs[i].idxs
        IN  hairs[i].length2 = Dist2(hair_coords[s[1]], hair_coords[s[Len(s) - 1]])

C4_Witness ==
    \E i \in DOMAIN hairs :
        LET s == hairs[i].idxs
        IN  /\ Len(s) >= 3
            /\ hairs[i].length2 # Dist2(hair_coords[s[1]], hair_coords[s[Len(s)]])

(* C5: the length stored with a strand is the distance between its first    *)
(* point and its last point.                                                *)
C5_LengthToLast ==
    \A i \in DOMAIN hairs :
        LET s == hairs[i].idxs
        IN  hairs[i].length2 = Dist2(hair_coords[s[1]], hair_coords[s[Len(s)]])

-----------------------------------------------------------------------------
(* Vocabulary of the create_mesh properties *)

(* the generator has run the code before its loop *)
Started == gen.state \in {"loop", "done"}

(* the generator is exhausted *)
Consumed == gen.state = "done"

Count(seq, x) == Cardinality({i \in DOMAIN seq : seq[i] = x})

(* the class of a length by the thresholds 0.05 and 0.1, on squares *)
LengthClass(length2) ==
    IF length2 <= 50 * 50 THEN "short"
    ELSE IF length2 <= 100 * 100 THEN "medium"
    ELSE "long"

BucketOf(class) ==
    CASE class = "short"  -> gen.short_hairs
      [] class = "medium" -> gen.medium_hairs
      [] class = "long"   -> gen.long_hairs

(* r holds the entries of bucket at the positions 0, N, 2N, ... (from 0) *)
IsEveryNth(r, bucket, N) ==
    LET kept == {p \in 1 .. Len(bucket) : (p - 1) % N = 0}
    IN  /\ Len(r) = Cardinality(kept)
        /\ \A p \in kept : r[((p - 1) \div N) + 1] = bucket[p]

IsRetainedOf(r, bucket, N) ==
    IF Len(bucket) > 30 THEN IsEveryNth(r, bucket, N) ELSE r = bucket

(* all_hairs is the retained part of the short bucket at stride N1, then of *)
(* the medium bucket at stride N2, then of the long bucket at stride N3     *)
AllHairsRetainedAt(N1, N2, N3) ==
    \E n1 \in 0 .. Len(gen.all_hairs) : \E n2 \in 0 .. (Len(gen.all_hairs) - n1) :
        /\ IsRetainedOf(SubSeq(gen.all_hairs, 1, n1), gen.short_hairs, N1)
        /\ IsRetainedOf(SubSeq(gen.all_hairs, n1 + 1, n1 + n2), gen.medium_hairs, N2)
        /\ IsRetainedOf(SubSeq(gen.all_hairs, n1 + n2 + 1, Len(gen.all_hairs)),
                        gen.long_hairs, N3)

(* C6: every extracted strand is in exactly one of the buckets short,       *)
(* medium, long, chosen by its recorded length alone: <= 0.05 short,        *)
(* <= 0.1 medium, above long; exactly 0.05 is short, exactly 0.1 is medium. *)
C6_OneBucketByLength ==
    Started =>
        \A i \in DOMAIN hairs : \A class \in {"short", "medium", "long"} :
            Count(BucketOf(class), hairs[i].idxs)
                = IF LengthClass(hairs[i].length2) = class THEN 1 ELSE 0

C6_Witness ==
    /\ Started
    /\ \E i \in DOMAIN hairs : hairs[i].length2 = 50 * 50
    /\ \E i \in DOMAIN hairs : hairs[i].length2 = 100 * 100

(* C7: a bucket of more than 30 strands is reduced to its strands at the    *)
(* positions 0, N, 2N, ... in extraction order, N the tier's stride for the *)
(* bucket; a bucket of 30 or fewer is retained whole.                       *)
C7_EveryNthAbove30 ==
    Started =>
        /\ \A class \in {"short", "medium", "long"} :
              \A j \in 1 .. (Len(BucketOf(class)) - 1) :
                  \E a, b \in DOMAIN hairs :
                      /\ a < b
                      /\ hairs[a].idxs = BucketOf(class)[j]
                      /\ hairs[b].idxs = BucketOf(class)[j + 1]
        /\ CASE gen.quality = "ultra"  -> AllHairsRetainedAt(1, 5, 6)
             [] gen.quality = "high"   -> AllHairsRetainedAt(3, 6, 6)
             [] gen.quality = "medium" -> AllHairsRetainedAt(6, 12, 14)
             [] gen.quality = "low"    -> AllHairsRetainedAt(15, 20, 20)

C7_Witness ==
    /\ Started
    /\ Len(gen.short_hairs) > 30
    /\ Len(gen.medium_hairs) > 0
    /\ gen.quality = "medium"
    /\ Len(gen.all_hairs) < Len(hairs)

(* C8, as stated: with quality tier high the strides applied to the short,  *)
(* medium and long buckets are 6, 6 and 3.                                  *)
C8_HighStrides_6_6_3 ==
    (Started /\ gen.quality = "high") => AllHairsRetainedAt(6, 6, 3)

(* C8, amended: with quality tier high the strides applied to the short,    *)
(* medium and long buckets are 3, 6 and 6.                                  *)
C8_HighStrides_3_6_6 ==
    (Started /\ gen.quality = "high") => AllHairsRetainedAt(3, 6, 6)

C8_Witness ==
    /\ Started
    /\ gen.quality = "high"
    /\ Len(gen.short_hairs) > 30
    /\ Len(gen.all_hairs) < Len(hairs)

(* the simplified point counts of the retained strands *)
SimplifiedCounts == {Len(h) : h \in Range(gen.rdp_downsized_hair_co_idxs)}

SimplifiedTo(k) == {h \in Range(gen.rdp_downsized_hair_co_idxs) : Len(h) = k}

(* C9: a fully consumed create_mesh has yielded exactly one object for each *)
(* simplified point count of the retained strands, the object for count k   *)
(* holds all and only the retained strands simplified to k points, and the  *)
(* output is non-empty when a strand is retained; strands of lengths 0.02,  *)
(* 0.07 and 0.15 at tier high are all retained.                             *)
C9_OneObjectPerPointCount ==
    Consumed =>
        /\ Len(gen.rdp_downsized_hair_co_idxs) = Len(gen.all_hairs)
        /\ Len(yielded) = Cardinality(SimplifiedCounts)
        /\ {yielded[i].name : i \in DOMAIN yielded} = SimplifiedCounts
        /\ \A i \in DOMAIN yielded :
              /\ Range(yielded[i].hair_vert_idxs) = SimplifiedTo(yielded[i].name)
              /\ Len(yielded[i].hair_vert_idxs) = Cardinality(SimplifiedTo(yielded[i].name))
              /\ yielded[i].name \in DOMAIN objects
              /\ objects[yielded[i].name] = yielded[i]
        /\ (gen.all_hairs # <<>>) => (yielded # <<>>)
        /\ (/\ gen.quality = "high"
            /\ [i \in DOMAIN hairs |-> hairs[i].length2] = <<20 * 20, 70 * 70, 150 * 150>>)
           => (Len(gen.all_hairs) = 3 /\ yielded # <<>>)

C9_Witness ==
    /\ Consumed
    /\ gen.quality = "high"
    /\ [i \in DOMAIN hairs |-> hairs[i].length2] = <<20 * 20, 70 * 70, 150 * 150>>
    /\ Len(yielded) = 2
    /\ \E i \in DOMAIN yielded : Len(yielded[i].hair_vert_idxs) = 2

(* the position of x in the duplicate-free sequence seq *)
PosIn(seq, x) == CHOOSE p \in DOMAIN seq : seq[p] = x

(* C10: the simplified index sequence of a retained strand is an            *)
(* order-preserving subsequence of the strand's index sequence holding its  *)
(* first and its last index; it has at most as many points, and at least 2  *)
(* when the strand has 2 or more.                                           *)
C10_SimplifiedIsSubsequence ==
    Started =>
        /\ Len(gen.rdp_downsized_hair_co_idxs) = Len(gen.all_hairs)
        /\ \A i \in DOMAIN gen.all_hairs :
              LET o == gen.all_hairs[i]
                  r == gen.rdp_downsized_hair_co_idxs[i]
              IN  /\ Len(r) <= Len(o)
                  /\ Len(o) >= 2 => Len(r) >= 2
                  /\ r[1] = o[1]
                  /\ r[Len(r)] = o[Len(o)]
                  /\ Range(r) \subseteq Range(o)
                  /\ \A j \in 1 .. (Len(r) - 1) : PosIn(o, r[j]) < PosIn(o, r[j + 1])

C10_Witness ==
    /\ Started
    /\ \E i \in DOMAIN gen.all_hairs :
          /\ Len(gen.rdp_downsized_hair_co_idxs[i]) < Len(gen.all_hairs[i])
          /\ Len(gen.rdp_downsized_hair_co_idxs[i]) >= 3

-----------------------------------------------------------------------------
(* Vocabulary of the haircard properties *)

(* the mesh create_mesh built for the object obj *)
BuiltMesh(obj) == BuildMesh(obj.name, obj.hair_vert_idxs, hair_coords, nearest_normals)

(* the mesh has 4 k n vertices and 2 (k - 1) n faces of four vertex indices *)
HasCardCounts(k, n, mesh) ==
    /\ Len(mesh.vertices) = 4 * k * n
    /\ Len(mesh.polygons) = 2 * (k - 1) * n
    /\ \A f \in DOMAIN mesh.polygons :
          /\ Len(mesh.polygons[f]) = 4
          /\ \A c \in 1 .. 4 : mesh.polygons[f][c] \in 0 .. (4 * k * n - 1)

(* C11: for a group of n strands of k simplified points each, the object    *)
(* create_mesh builds has exactly 4 k n vertices and exactly 2 (k - 1) n    *)
(* faces, every face having four vertex indices.                            *)
C11_VertexAndFaceCounts ==
    \A y \in DOMAIN yielded :
        HasCardCounts(yielded[y].name, Len(yielded[y].hair_vert_idxs), BuiltMesh(yielded[y]))

C11_Witness ==
    \E y \in DOMAIN yielded :
        /\ yielded[y].name = 3
        /\ Len(yielded[y].hair_vert_idxs) = 2
        /\ Len(BuiltMesh(yielded[y]).vertices) = 24
        /\ Len(BuiltMesh(yielded[y]).polygons) = 8

(* the two sides of the ribbons *)
RibbonSides == {<<"left", "right">>, <<"top", "bottom">>}

(* the vertex labels of the two cross-sections p and p + 1 of the strand s  *)
(* on the ribbon of the given sides                                         *)
CrossSections(s, p, sides) ==
    {[strand |-> s, point |-> q, made_in |-> sides[c]] : q \in {p, p + 1}, c \in 1 .. 2}

LabelOf(vertex) ==
    [strand |-> vertex.strand, point |-> vertex.point, made_in |-> vertex.made_in]

(* the face joins two consecutive cross-sections of one strand on one ribbon *)
JoinsConsecutive(k, n, mesh, face) ==
    \E s \in 1 .. n, p \in 1 .. (k - 1), sides \in RibbonSides :
        {LabelOf(mesh.vertices[face[c] + 1]) : c \in 1 .. 4} = CrossSections(s, p, sides)

AllJoinConsecutive(k, n, mesh) ==
    \A f \in DOMAIN mesh.polygons : JoinsConsecutive(k, n, mesh, mesh.polygons[f])

(* C12, as stated: every quad face create_mesh emits, on the flat ribbon    *)
(* and on the volume ribbon alike, joins two consecutive cross-sections of  *)
(* one strand: its four vertices are the two side vertices generated for    *)
(* the strand point p and the two generated for the point p + 1 of the same *)
(* ribbon, for some p.                                                      *)
C12_FacesJoinConsecutiveSections ==
    \A y \in DOMAIN yielded :
        AllJoinConsecutive(yielded[y].name, Len(yielded[y].hair_vert_idxs),
                           BuiltMesh(yielded[y]))

(* the objects of self.objects that have a uv layer *)
LayeredNames == {name \in DOMAIN objects : ObjId(objects[name]) \in DOMAIN uv_layers}

(* the rectangles of the bucket the measures of a card name: "long" when    *)
(* the length is above 0.05 and else "short"; in a long group "wide" when   *)
(* the width is above 0.02, in a short group when it is above 0.01, and     *)
(* else "narrow"                                                            *)
MatchingBucket(hairzone_uv_dict, length2, width2) ==
    LET long == length2 > (LongCardMin * Fine) * (LongCardMin * Fine)
        wide == IF long
                THEN width2 > (WideLongMin * Fine) * (WideLongMin * Fine)
                ELSE width2 > (WideShortMin * Fine) * (WideShortMin * Fine)
        groups == IF long THEN hairzone_uv_dict.long ELSE hairzone_uv_dict.short
    IN  UNION {Range(IF wide THEN groups[x].wide ELSE groups[x].narrow) : x \in DOMAIN groups}

(* the uv lies in the rectangle zone, its edges included *)
InZone(uv, zone) ==
    /\ zone[1][1] <= uv[1] /\ uv[1] <= zone[2][1]
    /\ zone[1][2] <= uv[2] /\ uv[2] <= zone[2][2]

(* the loops at the vertices of the card g *)
CardLoops(mesh, vert_len, g) ==
    {l \in 0 .. (4 * Len(mesh.polygons) - 1) :
        (LoopVert(mesh, l) \div (2 * vert_len)) + 1 = g}

(* the uv of every loop of the card g lies in one rectangle of the bucket   *)
(* its measures name                                                        *)
CardInMatchingBucket(mesh, vert_len, layer, g) ==
    \E zone \in MatchingBucket(HairzoneUvDict, MeasuredLength2(mesh, vert_len, g),
                               MeasuredWidth2(mesh, vert_len, g)) :
        /\ layer.chosen[g] = zone
        /\ \A l \in CardLoops(mesh, vert_len, g) : InZone(layer.uv[l], zone)

LayersInMatchingBucket(mesh, vert_len, layers) ==
    \A x \in DOMAIN layers :
        (~layers[x].skipped /\ ~layers[x].raised) =>
            \A g \in DOMAIN layers[x].chosen :
                CardInMatchingBucket(mesh, vert_len, layers[x], g)

(* C13: the UV rectangle _set_vert_group_uvs gives a card comes from the    *)
(* atlas bucket of the card's measured classification only (length above    *)
(* 0.05: long, else short; long: width above 0.02 wide, else narrow; short: *)
(* width above 0.01 wide, else narrow), whatever the random choices.        *)
C13_RectangleFromMatchingBucket ==
    \A name \in LayeredNames :
        LayersInMatchingBucket(BuiltMesh(objects[name]), name,
                               uv_layers[ObjId(objects[name])])

C13_Witness ==
    \E name \in LayeredNames :
        \E x \in DOMAIN uv_layers[ObjId(objects[name])] :
            LET layer == uv_layers[ObjId(objects[name])][x]
            IN  /\ ~layer.skipped /\ ~layer.raised
                /\ \E g \in DOMAIN layer.chosen :
                      layer.chosen[g] = HairzoneUvDict.long[1].narrow[2]
                /\ \E g \in DOMAIN layer.chosen :
                      layer.chosen[g] = HairzoneUvDict.short[2].wide[1]
                /\ LayersInMatchingBucket(BuiltMesh(objects[name]), name, <<layer>>)

(* the index of the vertex generated for the point p of the strand s on the *)
(* given side                                                               *)
VertexAt(mesh, s, p, side) ==
    CHOOSE a \in 0 .. (Len(mesh.vertices) - 1) :
        LabelOf(mesh.vertices[a + 1]) = [strand |-> s, point |-> p, made_in |-> side]

(* the uv of the loops at the vertex a *)
UvsAt(mesh, layer, a) == {layer.uv[l] : l \in {x \in DOMAIN layer.uv : LoopVert(mesh, x) = a}}

(* on the ribbon of the given sides of the strand s: the two side vertices  *)
(* of a point have the same v, one has u = x_max and the other u = x_min of *)
(* the rectangle chosen for the ribbon, and v runs affinely from y_min at   *)
(* one end of the strand to y_max at the other                              *)
RibbonUvAlongStrand(mesh, k, layer, s, sides) ==
    LET zone == layer.chosen[(VertexAt(mesh, s, 1, sides[1]) \div (2 * k)) + 1]
        x_min == zone[1][1]
        x_max == zone[2][1]
        y_min == zone[1][2]
        y_max == zone[2][2]
    IN  \E tip_first \in BOOLEAN, swap \in BOOLEAN :
            \A p \in 1 .. k :
                LET pos == IF tip_first THEN k - p ELSE p - 1
                    v == y_min + ((y_max - y_min) * pos) \div (k - 1)
                IN  /\ UvsAt(mesh, layer, VertexAt(mesh, s, p, sides[1])) =
                          {<<IF swap THEN x_min ELSE x_max, v>>}
                    /\ UvsAt(mesh, layer, VertexAt(mesh, s, p, sides[2])) =
                          {<<IF swap THEN x_max ELSE x_min, v>>}

LayersUvAlongStrand(mesh, k, n, layers, ribbons) ==
    \A x \in DOMAIN layers :
        (~layers[x].skipped /\ ~layers[x].raised) =>
            \A s \in 1 .. n, sides \in ribbons :
                RibbonUvAlongStrand(mesh, k, layers[x], s, sides)

(* C14, as stated: after add_uvs, on every ribbon of every strand the two   *)
(* side vertices of one strand point carry the same v and lie on opposite   *)
(* vertical edges of the chosen rectangle (u = x_max and u = x_min); v is   *)
(* an affine function of the point's position along the strand, y_min at    *)
(* one end and y_max at the other; every UV of the ribbon lies inside the   *)
(* one rectangle chosen for it.                                             *)
C14_UvInterpolatedAlongRibbon ==
    \A name \in LayeredNames :
        LayersUvAlongStrand(BuiltMesh(objects[name]), name,
                            Len(objects[name].hair_vert_idxs),
                            uv_layers[ObjId(objects[name])], RibbonSides)

(* the uv layer the running add_uvs call gave the object at key name *)
LatestLayer(name) ==
    uv_layers[ObjId(objects[name])][Len(uv_layers[ObjId(objects[name])])]

(* the objects the loop of the running add_uvs call is past *)
UvDone == (DOMAIN objects) \ uv_todo

(* the layer holds a uv for every loop of the mesh, taken from the bucket   *)
(* of each card                                                             *)
UvsAssigned(mesh, vert_len, layer) ==
    /\ DOMAIN layer.uv = 0 .. (4 * Len(mesh.polygons) - 1)
    /\ Len(mesh.polygons) > 0
    /\ LayersInMatchingBucket(mesh, vert_len, <<layer>>)

(* C15: add_uvs skips any object whose mesh has zero polygons without       *)
(* raising and goes on to the remaining objects, whose UVs are assigned as  *)
(* usual.                                                                   *)
C15_EmptyMeshSkipped ==
    /\ status.op = "add_uvs" => status.result \in {"running", "ok"}
    /\ pc = "add_uvs" =>
          \A name \in UvDone :
              /\ ~LatestLayer(name).raised
              /\ LatestLayer(name).skipped = (ObjId(objects[name]) \in removed_faces)
              /\ ~LatestLayer(name).skipped =>
                    UvsAssigned(BuiltMesh(objects[name]), name, LatestLayer(name))

C15_Witness ==
    /\ pc = "add_uvs"
    /\ \E skipped \in UvDone, assigned \in UvDone :
          /\ skipped < assigned
          /\ ObjId(objects[skipped]) \in removed_faces
          /\ LatestLayer(skipped).skipped
          /\ LatestLayer(skipped).uv = <<>>
          /\ ~LatestLayer(assigned).skipped
          /\ UvsAssigned(BuiltMesh(objects[assigned]), assigned, LatestLayer(assigned))

-----------------------------------------------------------------------------
(* Vocabulary of the haircap properties *)

(* the haircap vertices that are an endpoint of an edge of exactly one face *)
BoundaryVerts(cap) ==
    {i \in DOMAIN cap.color :
        \E e \in cap.edges :
            /\ i \in e
            /\ Cardinality({f \in DOMAIN cap.faces : e \subseteq Range(cap.faces[f])}) = 1}

(* C16: when add_haircap returns, every haircap vertex that is an endpoint  *)
(* of a boundary edge has colour (0,0,0,1) whatever its aggregate density,  *)
(* and every vertex on no boundary edge keeps the density colour painted    *)
(* for it.                                                                  *)
C16_BoundaryZeroedAfterPainting ==
    [][AddHaircapZero =>
          /\ haircap_obj'.exists
          /\ DOMAIN haircap_obj'.color = DOMAIN cap_frame.haircap_obj.color
          /\ \A i \in DOMAIN haircap_obj'.color :
                haircap_obj'.color[i] =
                    IF i \in BoundaryVerts(cap_frame.haircap_obj)
                    THEN <<0, 0, 0, One>>
                    ELSE cap_frame.haircap_obj.color[i]]_vars

(* add_haircap has just returned a haircap with a boundary vertex set to    *)
(* (0,0,0,1), a vertex on a loose edge only and an isolated vertex, both    *)
(* with their density colour                                                *)
C16_Witness ==
    /\ pc = "ready"
    /\ status = [op |-> "add_haircap", args |-> <<"A", "B">>, result |-> "ok"]
    /\ haircap_obj.exists
    /\ haircap_obj.edges = CapLoose.edges
    /\ 1 \in BoundaryVerts(haircap_obj) /\ haircap_obj.color[1] = <<0, 0, 0, One>>
    /\ 3 \notin BoundaryVerts(haircap_obj) /\ haircap_obj.color[3] = <<One, One, One, One>>
    /\ 4 \notin BoundaryVerts(haircap_obj) /\ haircap_obj.color[4] = <<70000, 70000, 70000, One>>

(* the weight of the body vertex n in the group, 0 when it is not assigned *)
WeightOrZero(hum, group, n) ==
    IF n \in DOMAIN hum.groups[group] THEN hum.groups[group][n] ELSE 0

RECURSIVE SumOfWeights(_, _, _)
SumOfWeights(hum, group_list, n) ==
    IF group_list = <<>> THEN 0
    ELSE WeightOrZero(hum, Head(group_list), n) + SumOfWeights(hum, Tail(group_list), n)

(* the multiples of 0.0001 around x, x being in units of 0.00001 *)
Around(x) == {10 * (x \div 10), 10 * (x \div 10) + 10}

(* x is r to 4 decimals: r is a multiple of 0.0001 nearest to x *)
IsRoundedTo4(x, r) ==
    /\ r \in Around(x)
    /\ \A m \in Around(x) : Abs(x - r) <= Abs(x - m)

(* the colour is (v, v, v, 1) for v the sum rounded to 4 decimals and       *)
(* clamped to [0, 1]                                                        *)
IsColorOfSum(sum, color) ==
    \E r \in Around(sum) :
        /\ IsRoundedTo4(sum, r)
        /\ color = IF r > One THEN <<One, One, One, One>>
                   ELSE IF r < 0 THEN <<0, 0, 0, One>> ELSE <<r, r, r, One>>

(* the body vertices nearest to the point co *)
NearestBodyVerts(hum, co) ==
    {n \in DOMAIN hum.body_co :
        \A m \in DOMAIN hum.body_co : Dist2(hum.body_co[n], co) <= Dist2(hum.body_co[m], co)}

(* the colour is (v, v, v, 1) for the density v of the point co *)
IsDensityColor(hum, group_list, co, color) ==
    \E n \in NearestBodyVerts(hum, co) :
        IsColorOfSum(SumOfWeights(hum, group_list, n), color)

(* C17: the colour add_haircap paints on a haircap vertex before boundary   *)
(* zeroing is (v,v,v,1), v being the sum over the given density vertex      *)
(* groups of the weight of the vertex's nearest body vertex (0 for a group  *)
(* it is not assigned to), rounded to 4 decimals and clamped to [0,1]; v is *)
(* never outside [0,1]; weights 0.3 and 0.4 give (0.7,0.7,0.7,1).           *)
C17_PaintedDensityColor ==
    cap_frame.active =>
        \A i \in DOMAIN cap_frame.haircap_obj.color :
            /\ IsDensityColor(human, status.args, cap_frame.haircap_world_coords[i],
                              cap_frame.haircap_obj.color[i])
            /\ cap_frame.haircap_obj.color[i][1] \in 0 .. One

(* painted for the groups A and B: 0.3 + 0.4 gives 0.7 at the vertex 0 and  *)
(* 1.0 + 0.6 is clamped to 1 at the vertex 1                                *)
C17_Witness ==
    /\ cap_frame.active
    /\ status.args = <<"A", "B">>
    /\ NearestBodyVerts(human, cap_frame.haircap_world_coords[0]) = {0}
    /\ human.groups.A[0] = 30000 /\ human.groups.B[0] = 40000
    /\ cap_frame.haircap_obj.color[0] = <<70000, 70000, 70000, One>>
    /\ cap_frame.haircap_obj.color[1] = <<One, One, One, One>>

(* C20: set_node_values called on a HairCollection that has a card material *)
(* but no haircap copies the Lightness and Redness of the human's hair      *)
(* material node to the card material and completes without error; only the *)
(* copy for the absent haircap material is skipped.                         *)
C20_NodeValuesWithoutHaircap ==
    (status.op = "set_node_values" /\ material # 0 /\ ~haircap_obj.exists) =>
        /\ status.result = "ok"
        /\ data_materials[material].Lightness = human.hair_node.Lightness
        /\ data_materials[material].Redness = human.hair_node.Redness
        /\ haircap_obj = NoHaircap

C20_Witness ==
    /\ status = [op |-> "set_node_values", args |-> <<>>, result |-> "ok"]
    /\ material # 0
    /\ ~haircap_obj.exists
    /\ human.hair_node = [Lightness |-> 7, Redness |-> 9]
    /\ data_materials[material] = [Lightness |-> 7, Redness |-> 9]
    /\ BlendMaterial # human.hair_node

-----------------------------------------------------------------------------
(* Vocabulary of the life of a HairCollection *)

(* the constructor has returned *)
ConstructorReturned == pc \in {"ready", "add_uvs", "add_haircap"}

(* C18: no operation after construction (create_mesh, add_uvs,              *)
(* add_material, add_haircap, set_node_values, in any order, any number of  *)
(* times) changes the extracted strands (self.hairs: index arrays and       *)
(* lengths), the hair coordinate array or the nearest-normal array.         *)
C18_StrandDataNeverMutated ==
    [][ConstructorReturned =>
          /\ hairs' = hairs
          /\ hair_coords' = hair_coords
          /\ nearest_normals' = nearest_normals]_vars

(* after construction an object of 4 points was yielded by create_mesh (the *)
(* loop body ran) and another operation has completed since                 *)
C18_Witness ==
    /\ pc = "ready"
    /\ \E y \in DOMAIN yielded : yielded[y].name > 2
    /\ gen.state = "done"
    /\ status.op \in {"add_uvs", "add_haircap", "set_node_values", "add_material"}
    /\ Len(hairs) > 0

(* C19: constructing a HairCollection consumes the hair source exactly      *)
(* once: all strands are extracted before the temporary edge mesh is freed, *)
(* the mesh is freed before the hair object is deleted, the hair object is  *)
(* deleted exactly once, and no later operation reads the hair object or    *)
(* the freed mesh.                                                          *)
C19_HairSourceConsumedOnce ==
    /\ hair_source.deletes <= 1
    /\ (hair_source.deletes = 1) = (hair_source.hair_obj = "deleted")
    /\ hair_source.hair_obj = "deleted" => hair_source.bm = "freed"
    /\ hair_source.bm = "freed" =>
          /\ cursor > Len(start_verts)
          /\ pc \notin {"extract", "free"}
    /\ ConstructorReturned => hair_source.deletes = 1
    /\ hair_source.stale = {}

C19_Witness ==
    /\ pc = "ready"
    /\ Len(hairs) = 2
    /\ hair_source = [bm |-> "freed", hair_obj |-> "deleted", deletes |-> 1, stale |-> {}]
    /\ calls > 0
    /\ gen.state = "done"
    /\ status.op = "add_haircap"

-----------------------------------------------------------------------------
(* Vocabulary of the node value properties *)

InputNames == {"Lightness", "Redness"}

(* every input of the names that the node has holds the value of old_node's *)
PresentInputsCopied(node, old_node) ==
    \A inp_name \in InputNames \cap DOMAIN node : node[inp_name] = old_node[inp_name]

(* C21, as stated: when the node group of a target material has no input    *)
(* named Lightness or none named Redness, set_node_values skips that input  *)
(* and is not aborted: the other input is still copied and the remaining    *)
(* materials are still processed.                                           *)
C21_MissingInputSkipped ==
    (status.op = "set_node_values" /\ material # 0) =>
        /\ status.result = "ok"
        /\ PresentInputsCopied(data_materials[material], human.hair_node)
        /\ haircap_obj.exists => PresentInputsCopied(haircap_obj.node, human.hair_node)

-----------------------------------------------------------------------------
(* Vocabulary of the card width properties *)

(* lines 135-160 for the strands of obj in a create_mesh(quality) call: the *)
(* loop body reads nothing of chosen_quality                                *)
MeshUnderTier(quality, obj) == BuiltMesh(obj)

(* the fifth element of the tier's tuple, twice width_scale *)
WidthScale2(quality) == QualityDict(quality)[5]

(* the vector across the card g that line 319 measures as its width *)
Across(mesh, vert_len, g) ==
    Sub(CardVert(mesh, vert_len, g, 0).co, CardVert(mesh, vert_len, g, 2 * vert_len - 1).co)

(* the widths of the cards of mesh are scale / unit times those of unit_mesh *)
WidthsInProportion(vert_len, mesh, scale, unit_mesh, unit) ==
    \A g \in Cards(mesh, vert_len) :
        \A axis \in 1 .. 3 :
            unit * Across(mesh, vert_len, g)[axis]
                = scale * Across(unit_mesh, vert_len, g)[axis]

(* C22, as stated: the card width is controlled by the tier's width_scale   *)
(* (0.5 ultra, 1 high and medium, 2 low): for the same retained strands the *)
(* cards of a tier are wider than those of the high tier in proportion to   *)
(* width_scale.                                                             *)
C22_WidthFollowsWidthScale ==
    \A y \in DOMAIN yielded :
        WidthsInProportion(yielded[y].name,
                           MeshUnderTier(gen.quality, yielded[y]), WidthScale2(gen.quality),
                           MeshUnderTier("high", yielded[y]), WidthScale2("high"))

-----------------------------------------------------------------------------
(* Vocabulary of the vertex offset properties *)

(* the four rows of vertices of a strand *)
Rows == {"left", "right", "top", "bottom"}

(* the position, from 1, in its row of hair_co_len vertices of the vertex   *)
(* generated for the point p of the strand s on the given side              *)
RowPosition(mesh, hair_co_len, s, p, side) ==
    (VertexAt(mesh, s, p, side) % hair_co_len) + 1

(* the element of segment_correction that lines 213-217 multiply into the   *)
(* offset of that vertex                                                    *)
TaperUsed(mesh, hair_co_len, s, p, side) ==
    CalculateSegmentCorrection(hair_co_len)[RowPosition(mesh, hair_co_len, s, p, side)]

(* C23, as stated: the tapering scalar decreases strictly from root to tip  *)
(* on every side of every ribbon: on each of the left, right, top and       *)
(* bottom rows the taper used for the vertex generated at the strand point  *)
(* p + 1 is smaller than the one used at the point p.                       *)
C23_TaperDecreasesRootToTip ==
    \A y \in DOMAIN yielded :
        LET k == yielded[y].name
            mesh == BuiltMesh(yielded[y])
        IN  \A s \in DOMAIN yielded[y].hair_vert_idxs, side \in Rows, p \in 1 .. (k - 1) :
                TaperUsed(mesh, k, s, p + 1, side) < TaperUsed(mesh, k, s, p, side)

(* five times the length multiplier of a strand whose first and last        *)
(* simplified points are at the squared distance d2, in units of 0.001      *)
OneMultiplier(d2) ==
    IF d2 < 5 * 5 THEN 3
    ELSE IF d2 >= 5 * 5 /\ d2 < 10 * 10 THEN 4
    ELSE 5

(* the offset from its strand point of the vertex generated for the point p *)
(* of the strand s on the given side, towards the right or the top          *)
OffsetOf(mesh, co, obj, s, p, side) ==
    LET vertex == mesh.vertices[VertexAt(mesh, s, p, side) + 1].co
        point == FineCo(co[obj.hair_vert_idxs[s][p]])
    IN  IF side \in {"right", "top"} THEN Sub(vertex, point) ELSE Sub(point, vertex)

(* the offset the taper at the row position q gives with the multiplier     *)
(* mult5 / 5                                                                *)
OffsetWith(obj, co, normals, s, q, side, mult5) ==
    LET k == obj.name
        taper == CalculateSegmentCorrection(k)[q]
        perpendicular ==
            CalculatePerpendicularVec(k, Gather(co, obj.hair_vert_idxs),
                                      Gather(normals, obj.hair_vert_idxs))[s][q]
        normal == normals[obj.hair_vert_idxs[s][q]]
        f == (taper * mult5) \div 5
        g == (taper * mult5 * 3) \div 50
    IN  IF side \in {"left", "right"}
        THEN <<f * perpendicular[1], f * perpendicular[2], f * perpendicular[3]>>
        ELSE <<g * Abs(normal[1]), g * Abs(normal[2]), g * Abs(normal[3])>>

(* the squared distance between the first and the last simplified point *)
EndToEnd2(obj, co, s) ==
    Dist2(co[obj.hair_vert_idxs[s][1]], co[obj.hair_vert_idxs[s][obj.name]])

(* every vertex of the strand s is offset with the one multiplier mult5 / 5 *)
OffsetsUse(obj, co, normals, s, mult5) ==
    LET mesh == BuildMesh(obj.name, obj.hair_vert_idxs, co, normals)
    IN  \A side \in Rows, p \in 1 .. obj.name :
            OffsetOf(mesh, co, obj, s, p, side)
                = OffsetWith(obj, co, normals, s,
                             RowPosition(mesh, obj.name, s, p, side), side, mult5)

(* C24: the length multiplier of a strand is exactly one value, chosen by   *)
(* the distance between its first and last simplified point: 0.6 below      *)
(* 0.005, 0.8 from 0.005 to below 0.01, and 1 otherwise; the two reductions *)
(* are never multiplied together, a distance of exactly 0.01 gives 1 and of *)
(* exactly 0.005 gives 0.8.                                                 *)
C24_OneLengthMultiplier ==
    \A y \in DOMAIN yielded :
        \A s \in DOMAIN yielded[y].hair_vert_idxs :
            OffsetsUse(yielded[y], hair_coords, nearest_normals, s,
                       OneMultiplier(EndToEnd2(yielded[y], hair_coords, s)))

C24_Witness ==
    \E y \in DOMAIN yielded :
        /\ EndToEnd2(yielded[y], hair_coords, 1) = 5 * 5
        /\ OffsetsUse(yielded[y], hair_coords, nearest_normals, 1, 4)
        /\ ~OffsetsUse(yielded[y], hair_coords, nearest_normals, 1, 3)

(* C25, as stated: for every strand point p the flat ribbon's left and      *)
(* right vertices generated for p are p - o and p + o for the same offset   *)
(* o = (taper at p) x (perpendicular at p) x (length multiplier), so that p *)
(* is their midpoint.                                                       *)
C25_PointIsMidpointOfLeftAndRight ==
    \A y \in DOMAIN yielded :
        LET obj == yielded[y]
            mesh == BuiltMesh(obj)
        IN  \A s \in DOMAIN obj.hair_vert_idxs, p \in 1 .. obj.name :
                LET o == OffsetWith(obj, hair_coords, nearest_normals, s, p, "right",
                                    LengthCorrection(Gather(hair_coords, obj.hair_vert_idxs)[s]))
                IN  /\ OffsetOf(mesh, hair_coords, obj, s, p, "left") = o
                    /\ OffsetOf(mesh, hair_coords, obj, s, p, "right") = o

-----------------------------------------------------------------------------
(* Vocabulary of the face index properties *)

(* the ribbon a row of vertices is a side of *)
RibbonOf(made_in) == IF made_in \in {"left", "right"} THEN "flat" ELSE "volume"

(* the four indices of the face are distinct, are indices of vertices of    *)
(* the mesh, and are of vertices of one strand and one ribbon               *)
FaceWellFormed(mesh, face) ==
    /\ Cardinality({face[c] : c \in 1 .. 4}) = 4
    /\ \A c \in 1 .. 4 : face[c] \in 0 .. (Len(mesh.vertices) - 1)
    /\ \A c, d \in 1 .. 4 :
          /\ mesh.vertices[face[c] + 1].strand = mesh.vertices[face[d] + 1].strand
          /\ RibbonOf(mesh.vertices[face[c] + 1].made_in)
                = RibbonOf(mesh.vertices[face[d] + 1].made_in)

(* every vertex of the mesh is a corner of a face *)
EveryVertexUsed(mesh) ==
    {mesh.polygons[f][c] : f \in DOMAIN mesh.polygons, c \in 1 .. 4}
        = 0 .. (Len(mesh.vertices) - 1)

FacesWellFormed(mesh) ==
    /\ \A f \in DOMAIN mesh.polygons : FaceWellFormed(mesh, mesh.polygons[f])
    /\ EveryVertexUsed(mesh)

(* no lookup of add_uvs has failed, and every vertex of the mesh is at a    *)
(* loop of each layer add_uvs has filled                                    *)
LoopsAtEveryVertex(mesh, layers) ==
    \A x \in DOMAIN layers :
        /\ ~layers[x].raised
        /\ ~layers[x].skipped =>
              {LoopVert(mesh, l) : l \in DOMAIN layers[x].uv} = 0 .. (Len(mesh.vertices) - 1)

-----------------------------------------------------------------------------
(* Vocabulary of the self.objects properties *)

(* the objects the latest create_mesh call has yielded so far *)
YieldedSoFar == {yielded[y] : y \in DOMAIN yielded}

(* the objects add_uvs or add_material has acted on *)
ActedOn == (DOMAIN uv_layers) \cup (DOMAIN obj_materials)

(* C27, as stated: while a create_mesh call is consumed and after it is     *)
(* exhausted, self.objects holds exactly the objects this call has yielded  *)
(* so far, keyed by point count; add_uvs and add_material act only on       *)
(* objects already yielded; and after a later create_mesh call no entry of  *)
(* an earlier call remains in self.objects.                                 *)
C27_ObjectsAreThisCallsYields ==
    gen.state \in {"loop", "done"} =>
        /\ {objects[name] : name \in DOMAIN objects} = YieldedSoFar
        /\ \A name \in DOMAIN objects : objects[name].name = name
        /\ \A id \in ActedOn : id[2] = calls => \E obj \in YieldedSoFar : ObjId(obj) = id
        /\ \A name \in DOMAIN objects : objects[name].call = calls

-----------------------------------------------------------------------------
(* C28: a strand of exactly two vertices is recorded with the length 0 and  *)
(* is therefore always classified short by create_mesh, whatever the        *)
(* distance between its two vertices.                                       *)
C28_TwoVertexStrandIsShort ==
    \A i \in DOMAIN hairs :
        Len(hairs[i].idxs) = 2 =>
            /\ hairs[i].length2 = 0
            /\ Started =>
                  /\ Count(BucketOf("short"), hairs[i].idxs) = 1
                  /\ Count(BucketOf("medium"), hairs[i].idxs) = 0
                  /\ Count(BucketOf("long"), hairs[i].idxs) = 0

C28_Witness ==
    /\ Started
    /\ \E i \in DOMAIN hairs :
          /\ Len(hairs[i].idxs) = 2
          /\ Dist2(hair_coords[hairs[i].idxs[1]], hair_coords[hairs[i].idxs[2]])
                > MediumMax * MediumMax
          /\ hairs[i].length2 = 0
          /\ Count(BucketOf("short"), hairs[i].idxs) = 1

(* C29, as stated: strand extraction terminates and completes without       *)
(* raising for every finite hair edge mesh, whatever its topology: simple   *)
(* open paths, branched components with three or more degree-1 vertices,    *)
(* components with cycles, isolated vertices.                               *)
C29_ExtractionCompletesOnEveryMesh == pc # "raised"

-----------------------------------------------------------------------------
(* Vocabulary of the renaming properties *)

(* the template the JSON data holds for the type *)
TemplateOf(data, type) ==
    data[CHOOSE i \in DOMAIN data : data[i].type = type].new_name

(* C30, as stated: every renamed object and material is given the JSON      *)
(* entry's template with {name}, {original_name} and {custom} filled from   *)
(* that item's own original name, followed by the suffix exactly once, also *)
(* when one JSON entry covers several items: the name given to the second   *)
(* and later items does not depend on the items renamed before.             *)
C30_NameFromOwnOriginalName ==
    \A i \in DOMAIN renaming.log :
        LET made == renaming.log[i]
        IN  made.given = Format(TemplateOf(renaming.args, made.type),
                                [t \in Tokens |->
                                    CASE t = "{name}" -> human.name
                                      [] t = "{original_name}" -> made.original_name
                                      [] t = "{custom}" -> renaming.custom_token])
                         \o renaming.suffix

====
